---- MODULE Spec2Model ----
(***************************************************************************)
(* Document ingestion -> adaptive chunking -> multi-pass summarization.     *)
(*                                                                         *)
(* The module models seven parts of the pipeline, each with its own        *)
(* specification over the same variables:                                  *)
(*   OrchSpec / OrchFairSpec  DocumentChunkingHelper.process_chunks_with_   *)
(*                            bedrock (parallel and sequential dispatch)    *)
(*   ChunkSpec                DocumentChunkingHelper.chunk_document         *)
(*   ExtractSpec              ImprovedPDFExtractor.extract_text_from_pdf    *)
(*   AggSpec                  DocumentChunkingHelper.create_final_summary   *)
(*   SumSpec                  TextSummaryService.summarize_text             *)
(*   SmartSpec                SmartChunkingService.chunk_document next to   *)
(*                            DocumentChunkingHelper.chunk_document         *)
(*   MergeSpec                SmartChunkingService.chunk_document on texts  *)
(*                            of many blocks, with a max_chunks cap         *)
(*   OcrSpec                  LightweightOCR.extract_text_from_pdf          *)
(***************************************************************************)
EXTENDS Integers, Sequences, FiniteSets, TLC

(***************************************************************************)
(* Part 1.  ChunkSummarizationOrchestrator                                  *)
(***************************************************************************)

\* Largest chunk list submitted to the orchestrator.
MaxChunks == 7

\* Largest max_parallel tried (the default of the code is 3).
MaxParallel == 3

PARALLEL_THRESHOLD == 5

\* Error texts a failing completion call may carry (str(e)).
Errors == {"throttled", "denied"}

VARIABLES
    chunks,        \* the chunk list handed to process_chunks_with_bedrock
    max_parallel,  \* its max_parallel argument
    opc,           \* position of process_chunks_with_bedrock
    mode,          \* "none" | "parallel" | "sequential"
    sem,           \* free permits of the asyncio.Semaphore
    tpc,           \* parallel mode: position of each process_chunk task
    call,          \* per chunk: state of its completion-service call
    served,        \* per chunk: what the service did with the call
    slot,          \* parallel mode: gather's result slot of each task
    results,       \* sequential mode: the results list
    idx,           \* sequential mode: the loop index (1-based)
    phase,         \* sequential mode: "top" | "calling" | "sleeping"
    delayed,       \* sequential mode: RATE_LIMIT_DELAY elapsed since the last call ended
    waited,        \* per chunk: value of delayed when its call was issued
    overtaken,     \* parallel mode: some task finished before an earlier one
    ret            \* the returned list

orchVars == <<chunks, max_parallel, opc, mode, sem, tpc, call, served, slot,
              results, idx, phase, delayed, waited, overtaken, ret>>

VARIABLES
    text,                \* chunk_document: the text argument
    preserve_structure,  \* chunk_document: the preserve_structure argument
    kpc,                 \* position of chunk_document
    strategy,            \* the strategy chosen
    units,               \* the stripped, non-empty paragraphs or sentences
    k,                   \* index of the next unit (1-based)
    current_chunk,       \* the running chunk text
    start_pos,           \* start_pos of the running chunk
    out_chunks,          \* the chunks list being built
    result               \* the ChunkingResult returned

chunkVars == <<text, preserve_structure, kpc, strategy, units, k,
               current_chunk, start_pos, out_chunks, result>>

VARIABLES
    reader,        \* the PDF: "ok" | "strict_fails" | "broken" (no reader at all)
    pages,         \* the PDF: per page, what extract_text gives and whether it has images
    max_pages,     \* extract_text_from_pdf: the max_pages argument, 0 for None
    xpc,           \* position of extract_text_from_pdf
    method,        \* _try_pypdf_methods: number of the next method
    attempted,     \* the strategies entered so far, in order
    first_valid,   \* number of the first PyPDF2 method whose text was valid, 0 if none
    pypdf_result,  \* the value _try_pypdf_methods returned
    ocr_engine,    \* the environment: what the OCR engine does with this PDF
    ocr_outcome,   \* what the OCR engine did, once it ran
    ocr_text,      \* the value _extract_with_basic_ocr_fallback returned
    output         \* the dictionary extract_text_from_pdf returned

extVars == <<reader, pages, max_pages, xpc, method, attempted, first_valid,
             pypdf_result, ocr_engine, ocr_outcome, ocr_text, output>>

VARIABLES
    chunk_summaries,  \* create_final_summary: the partial summaries passed in
    max_length,       \* create_final_summary: the max_length argument
    apc,              \* position of create_final_summary
    valid_summaries,  \* the partial summaries that passed the filter
    combined,         \* the labelled valid partial summaries, joined
    merge_prompts,    \* the prompts of the merge calls issued so far
    merge_failed,     \* the merge call raised
    final_summary     \* the string create_final_summary returned

aggVars == <<chunk_summaries, max_length, apc, valid_summaries, combined,
             merge_prompts, merge_failed, final_summary>>

VARIABLES
    doc,                 \* summarize_text: the text argument
    req_max_length,      \* summarize_text: the max_length argument
    auto_adjust_length,  \* summarize_text: the auto_adjust_length argument
    has_bedrock,         \* self.bedrock_service is set
    spc,                 \* position of summarize_text
    summary_result       \* the dictionary summarize_text returned

sumVars == <<doc, req_max_length, auto_adjust_length, has_bedrock, spc,
             summary_result>>

VARIABLES
    mpc,           \* position of SmartChunkingService.chunk_document
    max_chunks,    \* SmartChunkingService.chunk_document: max_chunks, 0 for None
    smart_chunks   \* the list SmartChunkingService.chunk_document returned

smartVars == <<mpc, max_chunks, smart_chunks>>

VARIABLES
    available,         \* LightweightOCR: self.available
    conversion,        \* the environment: "ok" or "fails", what pdf2image does
    images,            \* per page image, what Tesseract reads from it
    lpc,               \* position of LightweightOCR.extract_text_from_pdf
    page_num,          \* index of the next page image (1-based)
    all_text,          \* the text gathered so far
    pages_data,        \* the per-page entries gathered so far
    successful_pages,  \* pages with meaningful text so far
    ocr_dict           \* the dictionary extract_text_from_pdf returned

ocrVars == <<available, conversion, images, lpc, page_num, all_text, pages_data,
             successful_pages, ocr_dict>>

\* The variables outside each part.
nonOrchVars == <<chunkVars, extVars, aggVars, sumVars, smartVars,
    ocrVars>>

nonChunkVars == <<orchVars, extVars, aggVars, sumVars, smartVars,
    ocrVars>>

nonExtVars == <<orchVars, chunkVars, aggVars, sumVars, smartVars,
    ocrVars>>

nonAggVars == <<orchVars, chunkVars, extVars, sumVars, smartVars,
    ocrVars>>

nonSumVars == <<orchVars, chunkVars, extVars, aggVars, smartVars,
    ocrVars>>

\* text and preserve_structure of the chunker are the arguments of
\* SmartChunkingService.chunk_document too.
nonSmartVars == <<orchVars, chunkVars, extVars, aggVars, sumVars, ocrVars>>

nonOcrVars == <<orchVars, chunkVars, extVars, aggVars, sumVars, smartVars>>

vars == <<orchVars, chunkVars, extVars, aggVars, sumVars, smartVars, ocrVars>>

N == Len(chunks)

\* A chunk as _create_chunk numbers it; content carries a unique marker.
MkChunk(i) == [chunk_id |-> i - 1, content |-> 100 + i]

NoResult == [kind |-> "none", chunk |-> 0 - 1, text |-> "", pad |-> FALSE]

\* The text the completion service writes for a chunk prompt: the prompt
\* embeds chunk.content, so the summary carries the chunk's marker. pad tells
\* whether the text is surrounded by whitespace.
SummaryText(marker) ==
    [kind |-> "summary", chunk |-> marker, text |-> "ok", pad |-> FALSE]

Placeholder_bare(id, e) ==
    [kind |-> "error", chunk |-> id, text |-> "", pad |-> FALSE]

\* f"[Lỗi chunk {id}: {str(e)}]"
Placeholder(id, e) ==
    [kind |-> "error", chunk |-> id, text |-> e, pad |-> FALSE]

\* "Lỗi trích xuất response"
ExtractionErrorText ==
    [kind |-> "extract_error", chunk |-> 0 - 1, text |-> "", pad |-> FALSE]

\* str.strip()
StripText(t) == [t EXCEPT !.pad = FALSE]

\* Responses of the completion service to the prompt of chunk c: an object
\* with a .content string, a plain string, or a dict with a 'content' entry;
\* the text may come with surrounding whitespace.
ChunkResponses(c) ==
    { [shape |-> s, content |-> [SummaryText(c.content) EXCEPT !.pad = p]] :
        s \in {"message", "str", "dict"}, p \in BOOLEAN }

\* _extract_response_text: every branch strips the text it finds; a failure
\* inside is caught and replaced by the fixed extraction-error text.
_extract_response_text(response) ==
    CASE response.shape = "message" -> StripText(response.content)
      [] response.shape = "str"     -> StripText(response.content)
      [] response.shape = "dict"    -> StripText(response.content)
      [] OTHER                      -> ExtractionErrorText

Caught_none(e) == FALSE

\* "except Exception as e": every error the completion call raises derives
\* from Exception and is caught by the handler around the call.
Caught(e) == e \in Errors

ChooseMode_lt(n) == IF n < PARALLEL_THRESHOLD THEN "parallel" ELSE "sequential"

\* process_chunks_with_bedrock: the strategy choice.
ChooseMode(n) == IF n <= PARALLEL_THRESHOLD THEN "parallel" ELSE "sequential"

SemFree_none(s) == TRUE

\* asyncio.Semaphore: acquire proceeds only while a permit is free.
SemFree(s) == s > 0

GatherPlace_completion(i, finished) == finished + 1

\* asyncio.gather: the result of the i-th awaitable goes to the i-th place,
\* however many tasks finished before it.
GatherPlace(i, finished) == i

Finished == Cardinality({i \in 1..N : tpc[i] = "done"})

InFlight == {i \in 1..N : call[i] \in {"inflight", "hung"}}

\* process_chunks_with_bedrock, up to the first await.
Dispatch ==
    /\ UNCHANGED nonOrchVars
    /\ opc = "start"
    /\ IF N = 0
       THEN /\ opc' = "returned"
            /\ ret' = <<>>
            /\ UNCHANGED <<mode, sem, tpc>>
       ELSE IF ChooseMode(N) = "parallel"
       THEN /\ mode' = "parallel"
            /\ opc' = "gather"
            /\ sem' = max_parallel
            /\ tpc' = [i \in 1..N |-> "pending"]
            /\ ret' = ret
       ELSE /\ mode' = "sequential"
            /\ opc' = "loop"
            /\ UNCHANGED <<sem, tpc, ret>>
    /\ UNCHANGED <<chunks, max_parallel, call, served, slot, results, idx,
                   phase, delayed, waited, overtaken>>

\* process_chunk: "async with semaphore", prompt creation and the start of
\* the completion call.
TaskAcquire(i) ==
    /\ UNCHANGED nonOrchVars
    /\ mode = "parallel"
    /\ tpc[i] = "pending"
    /\ SemFree(sem)
    /\ sem' = sem - 1
    /\ tpc' = [tpc EXCEPT ![i] = "calling"]
    /\ call' = [call EXCEPT ![i] = "inflight"]
    /\ UNCHANGED <<chunks, max_parallel, opc, mode, served, slot, results,
                   idx, phase, delayed, waited, overtaken, ret>>

\* The service never answers this call. ai_ainvoke awaits client.ainvoke
\* with no timeout, and neither dispatch mode wraps the call in one.
ServiceHangs(i) ==
    /\ UNCHANGED nonOrchVars
    /\ call[i] = "inflight"
    /\ call' = [call EXCEPT ![i] = "hung"]
    /\ UNCHANGED <<chunks, max_parallel, opc, mode, sem, tpc, served, slot,
                   results, idx, phase, delayed, waited, overtaken, ret>>

\* process_chunk: the call returns; the text is extracted, the task returns
\* it and leaves the "async with" block, releasing its permit.
TaskCallReturns(i) ==
    /\ UNCHANGED nonOrchVars
    /\ mode = "parallel"
    /\ opc = "gather"
    /\ call[i] = "inflight"
    /\ \E r \in ChunkResponses(chunks[i]) :
         slot' = [slot EXCEPT ![GatherPlace(i, Finished)] = _extract_response_text(r)]
    /\ served' = [served EXCEPT ![i] = "returned"]
    /\ call' = [call EXCEPT ![i] = "done"]
    /\ tpc' = [tpc EXCEPT ![i] = "done"]
    /\ sem' = sem + 1
    /\ overtaken' = (overtaken \/ \E j \in 1..(i - 1) : tpc[j] # "done")
    /\ UNCHANGED <<chunks, max_parallel, opc, mode, results, idx, phase,
                   delayed, waited, ret>>

\* process_chunk with a failed call keeping its permit.
TaskCallRaises_leak(i) ==
    /\ UNCHANGED nonOrchVars
    /\ mode = "parallel"
    /\ opc = "gather"
    /\ call[i] = "inflight"
    /\ \E e \in Errors :
         /\ served' = [served EXCEPT ![i] = e]
         /\ slot' = [slot EXCEPT ![GatherPlace(i, Finished)] =
                        Placeholder(chunks[i].chunk_id, e)]
         /\ opc' = opc
    /\ call' = [call EXCEPT ![i] = "done"]
    /\ tpc' = [tpc EXCEPT ![i] = "done"]
    /\ sem' = sem
    /\ overtaken' = (overtaken \/ \E j \in 1..(i - 1) : tpc[j] # "done")
    /\ UNCHANGED <<chunks, max_parallel, mode, results, idx, phase,
                   delayed, waited, ret>>

\* process_chunk: the call raises; the except branch returns the placeholder
\* and the permit is released on the way out. An exception the handler did
\* not catch would leave the task and gather (return_exceptions=False) would
\* raise it to the caller.
TaskCallRaises(i) ==
    /\ UNCHANGED nonOrchVars
    /\ mode = "parallel"
    /\ opc = "gather"
    /\ call[i] = "inflight"
    /\ \E e \in Errors :
         /\ served' = [served EXCEPT ![i] = e]
         /\ IF Caught(e)
            THEN /\ slot' = [slot EXCEPT ![GatherPlace(i, Finished)] =
                                Placeholder(chunks[i].chunk_id, e)]
                 /\ opc' = opc
            ELSE /\ slot' = slot
                 /\ opc' = "raised"
    /\ call' = [call EXCEPT ![i] = "done"]
    /\ tpc' = [tpc EXCEPT ![i] = "done"]
    /\ sem' = sem + 1
    /\ overtaken' = (overtaken \/ \E j \in 1..(i - 1) : tpc[j] # "done")
    /\ UNCHANGED <<chunks, max_parallel, mode, results, idx, phase,
                   delayed, waited, ret>>

\* _process_parallel: gather resolves once every task has finished.
GatherReturns ==
    /\ UNCHANGED nonOrchVars
    /\ opc = "gather"
    /\ \A i \in 1..N : tpc[i] = "done"
    /\ ret' = [i \in 1..N |-> slot[i]]
    /\ opc' = "returned"
    /\ UNCHANGED <<chunks, max_parallel, mode, sem, tpc, call, served, slot,
                   results, idx, phase, delayed, waited, overtaken>>

\* _process_sequential: top of a loop iteration, up to the await of the call.
SeqIssue ==
    /\ UNCHANGED nonOrchVars
    /\ opc = "loop"
    /\ phase = "top"
    /\ idx <= N
    /\ call' = [call EXCEPT ![idx] = "inflight"]
    /\ waited' = [waited EXCEPT ![idx] = delayed]
    /\ phase' = "calling"
    /\ UNCHANGED <<chunks, max_parallel, opc, mode, sem, tpc, served, slot,
                   results, idx, delayed, overtaken, ret>>

\* _process_sequential: the call returns; append, then sleep unless this was
\* the last chunk.
SeqCallReturns ==
    /\ UNCHANGED nonOrchVars
    /\ opc = "loop"
    /\ phase = "calling"
    /\ call[idx] = "inflight"
    /\ \E r \in ChunkResponses(chunks[idx]) :
         results' = Append(results, _extract_response_text(r))
    /\ served' = [served EXCEPT ![idx] = "returned"]
    /\ call' = [call EXCEPT ![idx] = "done"]
    /\ delayed' = FALSE
    /\ IF idx - 1 < N - 1
       THEN phase' = "sleeping" /\ idx' = idx
       ELSE phase' = "top" /\ idx' = idx + 1
    /\ UNCHANGED <<chunks, max_parallel, opc, mode, sem, tpc, slot, waited, overtaken, ret>>

\* _process_sequential: asyncio.sleep(RATE_LIMIT_DELAY) is over.
SeqSleepDone ==
    /\ UNCHANGED nonOrchVars
    /\ opc = "loop"
    /\ phase = "sleeping"
    /\ delayed' = TRUE
    /\ phase' = "top"
    /\ idx' = idx + 1
    /\ UNCHANGED <<chunks, max_parallel, opc, mode, sem, tpc, call, served,
                   slot, results, waited, overtaken, ret>>

\* _process_sequential: the call raises; the except branch appends the
\* placeholder and the loop goes on with the next chunk, without sleeping.
SeqCallRaises ==
    /\ UNCHANGED nonOrchVars
    /\ opc = "loop"
    /\ phase = "calling"
    /\ call[idx] = "inflight"
    /\ \E e \in Errors :
         /\ served' = [served EXCEPT ![idx] = e]
         /\ IF Caught(e)
            THEN /\ results' = Append(results, Placeholder(idx - 1, e))
                 /\ opc' = opc
            ELSE /\ results' = results
                 /\ opc' = "raised"
    /\ call' = [call EXCEPT ![idx] = "done"]
    /\ delayed' = FALSE
    /\ phase' = "top"
    /\ idx' = idx + 1
    /\ UNCHANGED <<chunks, max_parallel, mode, sem, tpc, slot, waited, overtaken, ret>>

\* _process_sequential: the loop is over.
SeqReturns ==
    /\ UNCHANGED nonOrchVars
    /\ opc = "loop"
    /\ phase = "top"
    /\ idx > N
    /\ ret' = results
    /\ opc' = "returned"
    /\ UNCHANGED <<chunks, max_parallel, mode, sem, tpc, call, served, slot,
                   results, idx, phase, delayed, waited, overtaken>>

\* The state in which process_chunks_with_bedrock is entered.
OrchStart ==
    /\ \E n \in 0..MaxChunks : chunks = [i \in 1..n |-> MkChunk(i)]
    /\ max_parallel \in 1..MaxParallel
    /\ opc = "start"
    /\ mode = "none"
    /\ sem = 0
    /\ tpc = [i \in 1..N |-> "none"]
    /\ call = [i \in 1..N |-> "none"]
    /\ served = [i \in 1..N |-> "none"]
    /\ slot = [i \in 1..N |-> NoResult]
    /\ results = <<>>
    /\ idx = 1
    /\ phase = "top"
    /\ delayed = FALSE
    /\ waited = [i \in 1..N |-> FALSE]
    /\ overtaken = FALSE
    /\ ret = <<>>


\* No chunk list has been submitted.
OrchIdle == OrchStart /\ chunks = <<>> /\ max_parallel = 1

OrchStep ==
    \/ Dispatch
    \/ \E i \in 1..N : TaskAcquire(i)
    \/ \E i \in 1..N : ServiceHangs(i)
    \/ \E i \in 1..N : TaskCallReturns(i)
    \/ \E i \in 1..N : TaskCallRaises(i)
    \/ GatherReturns
    \/ SeqIssue
    \/ SeqCallReturns
    \/ SeqSleepDone
    \/ SeqCallRaises
    \/ SeqReturns

(***************************************************************************)
(* Part 2.  DocumentChunker (DocumentChunkingHelper.chunk_document)         *)
(*                                                                         *)
(* A text is a sequence of symbols.  "X" stands for a run of BlockLen       *)
(* letters (no whitespace, no punctuation), every other symbol for one      *)
(* character: "." "!" ":" " " and "NL" (a line feed).  Lengths are counted  *)
(* in characters, so that the thresholds keep the values of the code.       *)
(***************************************************************************)

\* Letters in one "X" run: half of the per-chunk budget.
BlockLen == 252000

\* Letters in one "W" run, whitespace in one "GAP" run, characters in one "M" run.
WordLen == 60

GapLen == 50

MetaLen == 60

\* Characters U+0000 in one "NULS" run.
NulRunLen == 120

\* Least length of the fallback message of _perform_ocr_extraction.
FallbackLen == 411

\* Largest number of tokens an input text is assembled from.
MaxTokens == 5

MAX_CHARS_PER_CHUNK == 504000

LARGE_DOCUMENT_THRESHOLD == 100000

Tokens ==
    { <<"X">>, <<"T">>, <<".", " ">>, <<"!", " ">>, <<"NL", "NL">>, <<":", "NL", "NL">> }

RECURSIVE TextsOf(_)
TextsOf(n) ==
    IF n = 0 THEN { <<>> }
    ELSE { t \o tok : t \in TextsOf(n - 1), tok \in Tokens }

Texts == UNION { TextsOf(n) : n \in 0..MaxTokens }

\* Characters a symbol stands for. "T" is a run of LARGE_DOCUMENT_THRESHOLD
\* letters: a text right at the threshold. Besides "X" and "T": "W" a run of WordLen letters,
\* "GAP" a run of GapLen whitespace characters, "M" a run of MetaLen characters
\* made of the PDF-internals token "obj", "F" the fallback message of
\* _perform_ocr_extraction; "c" is one letter, "NUL" the character U+0000 and
\* "NULS" a run of NulRunLen of them.
CharLen(c) ==
    CASE c = "X"   -> BlockLen
      [] c = "T"   -> LARGE_DOCUMENT_THRESHOLD
      [] c = "W"   -> WordLen
      [] c = "GAP" -> GapLen
      [] c = "M"   -> MetaLen
      [] c = "NULS" -> NulRunLen
      [] c = "F"   -> FallbackLen
      [] OTHER     -> 1

\* len(s)
RECURSIVE PyLen(_)
PyLen(t) == IF t = <<>> THEN 0 ELSE CharLen(Head(t)) + PyLen(Tail(t))

\* \s
IsWS(c) == c \in {" ", "NL", "GAP"}

\* [\d\w]: the symbols that stand for letters.
IsWord(c) == c \in {"X", "T", "W", "c"}

RECURSIVE LStrip(_)
LStrip(t) == IF t # <<>> /\ IsWS(Head(t)) THEN LStrip(Tail(t)) ELSE t

RECURSIVE RStrip(_)
RStrip(t) ==
    IF t # <<>> /\ IsWS(t[Len(t)]) THEN RStrip(SubSeq(t, 1, Len(t) - 1)) ELSE t

\* str.strip()
Strip(t) == RStrip(LStrip(t))

\* First index >= i that holds no whitespace (Len(t) + 1 if there is none).
RECURSIVE SkipWS(_, _)
SkipWS(t, i) == IF i <= Len(t) /\ IsWS(t[i]) THEN SkipWS(t, i + 1) ELSE i

\* First index >= i that holds no character of [\d\w\s].
RECURSIVE SkipWordWS(_, _)
SkipWordWS(t, i) ==
    IF i <= Len(t) /\ (IsWS(t[i]) \/ IsWord(t[i])) THEN SkipWordWS(t, i + 1) ELSE i

\* Last line feed among t[a..b], 0 if there is none.
LastNL(t, a, b) ==
    LET S == { j \in a..b : t[j] = "NL" }
    IN  IF S = {} THEN 0 ELSE CHOOSE j \in S : \A j2 \in S : j2 <= j

\* paragraph_pattern.split(t), paragraph_pattern = \n\s*\n : a match starts at
\* a line feed and runs, through whitespace, to the last line feed of the run.
RECURSIVE ParagraphSplit(_, _, _)
ParagraphSplit(t, i, piece) ==
    IF i > Len(t) THEN << piece >>
    ELSE LET l == IF t[i] = "NL" THEN LastNL(t, i + 1, SkipWS(t, i + 1) - 1) ELSE 0
         IN  IF l > 0
             THEN << piece >> \o ParagraphSplit(t, l + 1, <<>>)
             ELSE ParagraphSplit(t, i + 1, Append(piece, t[i]))

\* sentence_pattern.split(t), sentence_pattern = [.!?]\s+ : the match takes
\* the punctuation mark and the whitespace after it.
RECURSIVE SentenceSplit(_, _, _)
SentenceSplit(t, i, piece) ==
    IF i > Len(t) THEN << piece >>
    ELSE IF t[i] \in {".", "!", "?"} /\ i < Len(t) /\ IsWS(t[i + 1])
         THEN << piece >> \o SentenceSplit(t, SkipWS(t, i + 1), <<>>)
         ELSE SentenceSplit(t, i + 1, Append(piece, t[i]))

\* [p.strip() for p in pieces if p.strip()]
RECURSIVE StripNonEmpty(_)
StripNonEmpty(pieces) ==
    IF pieces = <<>> THEN <<>>
    ELSE IF Strip(Head(pieces)) = <<>> THEN StripNonEmpty(Tail(pieces))
         ELSE << Strip(Head(pieces)) >> \o StripNonEmpty(Tail(pieces))

\* len(section_pattern.findall(t)), section_pattern = ^[\d\w\s]*[:\-]\s* with
\* re.MULTILINE: a match starts at a line start, takes the run of word and
\* whitespace characters, needs ":" or "-" right after the run and takes the
\* whitespace that follows; the search resumes where the match ended.
RECURSIVE SectionCount(_, _)
SectionCount(t, pos) ==
    IF pos > Len(t) THEN 0
    ELSE IF ~(pos = 1 \/ t[pos - 1] = "NL") THEN SectionCount(t, pos + 1)
    ELSE LET q == SkipWordWS(t, pos)
         IN  IF q > Len(t) THEN 0
             ELSE IF t[q] \in {":", "-"}
                  THEN 1 + SectionCount(t, SkipWS(t, q + 1))
                  ELSE SectionCount(t, q + 1)

\* len(s.split()): the number of maximal runs of non-whitespace.
WordCount(t) ==
    Cardinality({ i \in 1..Len(t) : ~IsWS(t[i]) /\ (i = 1 \/ IsWS(t[i - 1])) })

\* should_chunk_document with the threshold itself counted as large.
should_chunk_document_ge(t) ==
    t # <<>> /\ PyLen(Strip(t)) >= LARGE_DOCUMENT_THRESHOLD

\* should_chunk_document (truthiness of "text and len(text.strip()) > T")
should_chunk_document(t) ==
    t # <<>> /\ PyLen(Strip(t)) > LARGE_DOCUMENT_THRESHOLD

_has_structure(t) ==
    /\ Len(ParagraphSplit(t, 1, <<>>)) >= 3
    /\ SectionCount(t, 1) >= 2

\* The separator each strategy puts between the units of one chunk.
Separator(s) == IF s = "structure_aware" THEN <<"NL", "NL">> ELSE <<".", " ">>

\* sum(len(u) for u in units[:i])
RECURSIVE SumLen(_, _)
SumLen(us, n) == IF n = 0 THEN 0 ELSE PyLen(us[n]) + SumLen(us, n - 1)

\* _create_chunk numbering every chunk 0.
_create_chunk_unnumbered(content, chunk_id, start) ==
    LET c == Strip(content)
    IN  [ content    |-> c,
          chunk_id   |-> 0,
          start_pos  |-> start,
          end_pos    |-> start + PyLen(c),
          word_count |-> WordCount(c),
          char_count |-> PyLen(c) ]

_create_chunk(content, chunk_id, start) ==
    LET c == Strip(content)
    IN  [ content    |-> c,
          chunk_id   |-> chunk_id,
          start_pos  |-> start,
          end_pos    |-> start + PyLen(c),
          word_count |-> WordCount(c),
          char_count |-> PyLen(c) ]

RECURSIVE SumChars(_)
SumChars(cs) == IF cs = <<>> THEN 0 ELSE Head(cs).char_count + SumChars(Tail(cs))

ChunkingResult(cs, strat) ==
    [ chunks              |-> cs,
      total_chunks        |-> Len(cs),
      total_chars         |-> SumChars(cs),
      avg_chunk_size      |-> SumChars(cs) \div Len(cs),
      processing_strategy |-> strat ]

NoChunkingResult ==
    [ chunks |-> <<>>, total_chunks |-> 0, total_chars |-> 0,
      avg_chunk_size |-> 0, processing_strategy |-> "none" ]

\* The state before chunk_document is called.
ChunkerIdle ==
    /\ kpc = "start"
    /\ strategy = "none"
    /\ units = <<>>
    /\ k = 1
    /\ current_chunk = <<>>
    /\ start_pos = 0
    /\ out_chunks = <<>>
    /\ result = NoChunkingResult

\* chunk_document up to the strategy choice: the empty-input error, the
\* strip, the single chunk of a small document, and the split into units.
ChunkDocumentStart ==
    /\ UNCHANGED nonChunkVars
    /\ kpc = "start"
    /\ IF text = <<>>
       THEN /\ kpc' = "raised"
            /\ UNCHANGED <<strategy, units, result>>
       ELSE LET t == Strip(text)
            IN  IF ~should_chunk_document(t)
                THEN /\ kpc' = "done"
                     /\ strategy' = "single_chunk"
                     /\ result' =
                          [ chunks |-> << [ content |-> t, chunk_id |-> 0,
                                            start_pos |-> 0, end_pos |-> PyLen(t),
                                            word_count |-> WordCount(t),
                                            char_count |-> PyLen(t) ] >>,
                            total_chunks |-> 1,
                            total_chars |-> PyLen(t),
                            avg_chunk_size |-> PyLen(t),
                            processing_strategy |-> "single_chunk" ]
                     /\ units' = units
                ELSE /\ kpc' = "loop"
                     /\ IF preserve_structure /\ _has_structure(t)
                        THEN /\ strategy' = "structure_aware"
                             /\ units' = StripNonEmpty(ParagraphSplit(t, 1, <<>>))
                        ELSE /\ strategy' = "simple_chunking"
                             /\ units' = StripNonEmpty(SentenceSplit(t, 1, <<>>))
                     /\ result' = result
    /\ UNCHANGED <<text, preserve_structure, k, current_chunk, start_pos, out_chunks>>

\* One iteration of the loop of _chunk_by_structure / _chunk_by_sentences.
ChunkLoopStep ==
    /\ UNCHANGED nonChunkVars
    /\ kpc = "loop"
    /\ k <= Len(units)
    /\ LET u == units[k]
       IN  IF PyLen(current_chunk) + PyLen(u) > MAX_CHARS_PER_CHUNK
              /\ current_chunk # <<>>
           THEN /\ out_chunks' = Append(out_chunks,
                      _create_chunk(current_chunk, Len(out_chunks), start_pos))
                /\ current_chunk' = u
                /\ start_pos' = SumLen(units, k - 1)
           ELSE /\ start_pos' = IF current_chunk = <<>>
                                THEN SumLen(units, k - 1) ELSE start_pos
                /\ current_chunk' = IF current_chunk # <<>>
                                    THEN current_chunk \o Separator(strategy) \o u
                                    ELSE u
                /\ out_chunks' = out_chunks
    /\ k' = k + 1
    /\ UNCHANGED <<text, preserve_structure, kpc, strategy, units, result>>

\* After the loop: the final chunk, and the ChunkingResult of chunk_document.
ChunkDocumentFinish ==
    /\ UNCHANGED nonChunkVars
    /\ kpc = "loop"
    /\ k > Len(units)
    /\ LET cs == IF current_chunk # <<>>
                 THEN Append(out_chunks,
                        _create_chunk(current_chunk, Len(out_chunks), start_pos))
                 ELSE out_chunks
       IN  /\ out_chunks' = cs
           /\ IF cs = <<>>
              THEN kpc' = "raised" /\ result' = result
              ELSE kpc' = "done" /\ result' = ChunkingResult(cs, strategy)
    /\ UNCHANGED <<text, preserve_structure, strategy, units, k, current_chunk,
                   start_pos>>

(***************************************************************************)
(* Part 3.  PdfExtractionCascade (ImprovedPDFExtractor)                     *)
(***************************************************************************)

\* Most pages of a PDF.
MaxPages == 3

MIN_TEXT_LENGTH == 100

\* METADATA_THRESHOLD = 0.7, in percent.
METADATA_THRESHOLD_PCT == 70

MAX_DIAGNOSTIC_PAGES == 3

\* What page.extract_text() gives: it raises, or returns one of these texts
\* (nothing, one letter, a short line, a line and a letter far apart, two
\* words, PDF-internals noise, a run of U+0000, two words with a run of
\* U+0000 between spaces).
RAISES == <<"RAISES">>

PageTexts ==
    { <<>>, <<"c">>, <<"W">>, <<"W", "GAP", "c">>, <<"W", " ", "W">>, <<"M", "M">>,
      <<"NULS">>, <<"W", " ", "NULS", " ", "W">> }

\* Images are looked for only on a page whose text has at most 10 characters.
PageKinds ==
    { [txt |-> RAISES, img |-> FALSE] }
    \cup { [txt |-> t, img |-> FALSE] : t \in PageTexts }
    \cup { [txt |-> t, img |-> TRUE] : t \in { <<>>, <<"c">> } }

RECURSIVE PdfsOf(_)
PdfsOf(n) ==
    IF n = 0 THEN { <<>> }
    ELSE { Append(d, pg) : d \in PdfsOf(n - 1), pg \in PageKinds }

Pdfs == UNION { PdfsOf(n) : n \in 0..MaxPages }

\* What the OCR run comes to inside _perform_ocr_extraction: the import of
\* LightweightOCR fails, the engine raises, it reports success = False (not
\* installed, no page image, no page with usable text), or it reports success
\* with the text of the pages.
OcrOutcomes ==
    { [kind |-> "import_error", text |-> <<>>],
      [kind |-> "exception", text |-> <<>>],
      [kind |-> "failure", text |-> <<>>],
      [kind |-> "success", text |-> <<"W">>],
      [kind |-> "success", text |-> <<"W", "NL", "NL", "W">>] }

NoOcr == [kind |-> "none", text |-> <<>>]

\* The message _perform_ocr_extraction returns when OCR did not work.
FallbackMessage == <<"F">>

\* Characters of PDF-internals tokens in text.lower().strip()
RECURSIVE MetadataChars(_)
MetadataChars(t) ==
    IF t = <<>> THEN 0
    ELSE (IF Head(t) = "M" THEN MetaLen ELSE 0) + MetadataChars(Tail(t))

_is_metadata_only(t) ==
    \/ t = <<>>
    \/ 100 * MetadataChars(Strip(t)) > METADATA_THRESHOLD_PCT * PyLen(t)

_is_valid_text(t) ==
    /\ t # <<>>
    /\ PyLen(Strip(t)) > MIN_TEXT_LENGTH
    /\ ~_is_metadata_only(t)

\* re.sub(r'\s+', ' ', t): every maximal whitespace run becomes one space.
RECURSIVE CollapseWS(_)
CollapseWS(t) ==
    IF t = <<>> THEN <<>>
    ELSE IF IsWS(Head(t))
         THEN <<" ">> \o CollapseWS(SubSeq(t, SkipWS(t, 1), Len(t)))
         ELSE <<Head(t)>> \o CollapseWS(Tail(t))

\* t.replace('\x00', '').replace(U+FFFD, '')
RECURSIVE DropNul(_)
DropNul(t) ==
    IF t = <<>> THEN <<>>
    ELSE IF Head(t) \in {"NUL", "NULS", "FFFD"} THEN DropNul(Tail(t))
         ELSE <<Head(t)>> \o DropNul(Tail(t))

\* _clean_extracted_text. After the whitespace collapse no line break is
\* left, so the two line-break substitutions change nothing.
_clean_extracted_text(t) ==
    IF t = <<>> THEN <<>> ELSE Strip(DropNul(CollapseWS(t)))

\* pages[:max_pages] if max_pages else pages
PagesToProcess ==
    IF max_pages # 0
    THEN SubSeq(pages, 1, IF max_pages < Len(pages) THEN max_pages ELSE Len(pages))
    ELSE pages

Raised == [raised |-> TRUE, text |-> <<>>]

Returned(t) == [raised |-> FALSE, text |-> t]

\* text += page.extract_text() over the pages; ps has no raising page.
RECURSIVE ConcatPages(_, _)
ConcatPages(ps, suffix) ==
    IF ps = <<>> THEN <<>>
    ELSE IF Head(ps).txt = RAISES THEN ConcatPages(Tail(ps), suffix)
         ELSE Head(ps).txt \o suffix \o ConcatPages(Tail(ps), suffix)

\* Method 1: the strict reader, and any raising page, end the method.
_extract_with_pypdf2_strict ==
    IF reader # "ok" \/ \E i \in 1..Len(PagesToProcess) : PagesToProcess[i].txt = RAISES
    THEN Raised
    ELSE Returned(ConcatPages(PagesToProcess, <<>>))

\* Method 2: the tolerant reader; a raising page is skipped.
_extract_with_pypdf2_warnings_ignored ==
    IF reader = "broken" THEN Raised
    ELSE Returned(ConcatPages(PagesToProcess, <<>>))

\* Pages of ps that raise nothing and give a non-empty text.
RECURSIVE TextPages(_)
TextPages(ps) ==
    IF ps = <<>> THEN <<>>
    ELSE IF Head(ps).txt = RAISES \/ Head(ps).txt = <<>> THEN TextPages(Tail(ps))
         ELSE <<Head(ps)>> \o TextPages(Tail(ps))

\* Method 3: page by page, a line feed after each page; no page at all raises.
_extract_with_pypdf2_page_by_page ==
    IF reader = "broken" \/ TextPages(PagesToProcess) = <<>>
    THEN Raised
    ELSE Returned(ConcatPages(TextPages(PagesToProcess), <<"NL">>))

MethodName(n) ==
    CASE n = 1 -> "strict"
      [] n = 2 -> "warnings_ignored"
      [] n = 3 -> "page_by_page"

\* self.extraction_methods[:-1], in list order.
PypdfMethod(n) ==
    CASE n = 1 -> _extract_with_pypdf2_strict
      [] n = 2 -> _extract_with_pypdf2_warnings_ignored
      [] n = 3 -> _extract_with_pypdf2_page_by_page

\* _analyze_pdf_content: the loop over the first pages stops at the first
\* page with more than 10 characters of text; images are looked for on the
\* pages before it.  A raising page is skipped.
RECURSIVE AnalyzePages(_, _)
AnalyzePages(ps, acc) ==
    IF ps = <<>> THEN acc
    ELSE IF Head(ps).txt = RAISES THEN AnalyzePages(Tail(ps), acc)
    ELSE IF Head(ps).txt # <<>> /\ PyLen(Strip(Head(ps).txt)) > 10
         THEN [acc EXCEPT !.has_text = TRUE]
         ELSE AnalyzePages(Tail(ps),
                [acc EXCEPT !.has_images = acc.has_images \/ Head(ps).img])

\* The analysis with needs_ocr taken as "images and no text".
_analyze_pdf_content_and ==
    LET n == IF MAX_DIAGNOSTIC_PAGES < Len(pages) THEN MAX_DIAGNOSTIC_PAGES ELSE Len(pages)
        a == AnalyzePages(SubSeq(pages, 1, n), [has_images |-> FALSE, has_text |-> FALSE])
    IN  [ has_images |-> a.has_images,
          has_text   |-> a.has_text,
          needs_ocr  |-> a.has_images /\ ~a.has_text ]

_analyze_pdf_content ==
    LET n == IF MAX_DIAGNOSTIC_PAGES < Len(pages) THEN MAX_DIAGNOSTIC_PAGES ELSE Len(pages)
        a == AnalyzePages(SubSeq(pages, 1, n), [has_images |-> FALSE, has_text |-> FALSE])
    IN  [ has_images |-> a.has_images,
          has_text   |-> a.has_text,
          needs_ocr  |-> a.has_images \/ ~a.has_text ]

NoOutput == [text |-> <<>>, source |-> "none"]

\* The state in which extract_text_from_pdf is entered.
ExtractorStart ==
    /\ xpc = "pypdf"
    /\ method = 1
    /\ attempted = <<>>
    /\ first_valid = 0
    /\ pypdf_result = <<>>
    /\ ocr_outcome = NoOcr
    /\ ocr_text = <<>>
    /\ output = NoOutput

\* No PDF has been submitted.
ExtractorIdle ==
    /\ reader = "ok"
    /\ pages = <<>>
    /\ max_pages = 0
    /\ ocr_engine = [kind |-> "failure", text |-> <<>>]
    /\ ExtractorStart

\* _try_pypdf_methods: one turn of the loop over the PyPDF2 methods.
TryPypdfMethod ==
    /\ UNCHANGED nonExtVars
    /\ xpc = "pypdf"
    /\ attempted' = Append(attempted, MethodName(method))
    /\ LET o == PypdfMethod(method)
       IN  IF ~o.raised /\ _is_valid_text(o.text)
           THEN /\ pypdf_result' = _clean_extracted_text(o.text)
                /\ first_valid' = method
                /\ xpc' = "validate"
                /\ method' = method
           ELSE /\ pypdf_result' = <<>>
                /\ first_valid' = first_valid
                /\ IF method = 3
                   THEN xpc' = "validate" /\ method' = method
                   ELSE xpc' = xpc /\ method' = method + 1
    /\ UNCHANGED <<reader, pages, max_pages, ocr_engine, ocr_outcome, ocr_text, output>>

\* extract_text_from_pdf: the check of what _try_pypdf_methods returned.
CheckPypdfResult ==
    /\ UNCHANGED nonExtVars
    /\ xpc = "validate"
    /\ IF pypdf_result # <<>> /\ _is_valid_text(pypdf_result)
       THEN /\ output' = [text |-> pypdf_result, source |-> "pypdf2"]
            /\ xpc' = "returned"
       ELSE /\ output' = output
            /\ xpc' = "ocr"
    /\ UNCHANGED <<reader, pages, max_pages, ocr_engine, method, attempted, first_valid,
                   pypdf_result, ocr_outcome, ocr_text>>

\* _try_ocr_extraction -> _extract_with_basic_ocr_fallback: the analysis. A
\* PDF no reader opens raises here, which _try_ocr_extraction catches.
OcrAnalyze ==
    /\ UNCHANGED nonExtVars
    /\ xpc = "ocr"
    /\ attempted' = Append(attempted, "ocr")
    /\ IF reader = "broken"
       THEN xpc' = "ocr_done"
       ELSE IF _analyze_pdf_content.needs_ocr
            THEN xpc' = "ocr_run"
            ELSE xpc' = "ocr_done"
    /\ ocr_text' = <<>>
    /\ UNCHANGED <<reader, pages, max_pages, ocr_engine, method, first_valid, pypdf_result,
                   ocr_outcome, output>>

\* _perform_ocr_extraction: the engine's text if it reports success with a
\* non-blank text, the fallback message in every other case.
OcrPerform ==
    /\ UNCHANGED nonExtVars
    /\ xpc = "ocr_run"
    /\ LET o == ocr_engine IN
         /\ ocr_outcome' = o
         /\ ocr_text' = IF o.kind = "success" /\ Strip(o.text) # <<>>
                        THEN o.text
                        ELSE FallbackMessage
    /\ xpc' = "ocr_done"
    /\ UNCHANGED <<reader, pages, max_pages, ocr_engine, method, attempted, first_valid,
                   pypdf_result, output>>

\* The end of extract_text_from_pdf with "if ocr_result is not None".
ExtractFinish_unchecked ==
    /\ UNCHANGED nonExtVars
    /\ xpc = "ocr_done"
    /\ output' = [text |-> IF _is_valid_text(ocr_text)
                           THEN _clean_extracted_text(ocr_text)
                           ELSE <<>>,
                  source |-> "ocr"]
    /\ xpc' = "returned"
    /\ UNCHANGED <<reader, pages, max_pages, ocr_engine, method, attempted, first_valid,
                   pypdf_result, ocr_outcome, ocr_text>>

\* _try_ocr_extraction: the validity check of the OCR text, and the end of
\* extract_text_from_pdf: the OCR result or the diagnostic ValueError.
ExtractFinish ==
    /\ UNCHANGED nonExtVars
    /\ xpc = "ocr_done"
    /\ LET ocr_result == IF _is_valid_text(ocr_text)
                         THEN _clean_extracted_text(ocr_text)
                         ELSE <<>>
       IN  IF ocr_result # <<>>
           THEN /\ output' = [text |-> ocr_result, source |-> "ocr"]
                /\ xpc' = "returned"
           ELSE /\ output' = output
                /\ xpc' = "raised"
    /\ UNCHANGED <<reader, pages, max_pages, ocr_engine, method, attempted, first_valid,
                   pypdf_result, ocr_outcome, ocr_text>>

(***************************************************************************)
(* Part 4.  FinalSummaryAggregator (create_final_summary)                   *)
(*                                                                         *)
(* Strings are sequences of one-character symbols here, so len() is Len     *)
(* and s[:n] is a SubSeq.  The fixed messages are single symbols.           *)
(***************************************************************************)

\* Most partial summaries in one call, and the largest max_length.
MaxPartials == 3

MaxLength == 3

\* "[Lỗi"
ErrorPrefix == <<"[", "L", "o", "i">>

\* A placeholder of the orchestrator, "[Lỗi chunk k: e]".
PlaceholderText == ErrorPrefix \o <<"]">>

\* What _extract_response_text returns for a response it cannot convert,
\* "Lỗi trích xuất response".
ExtractionErrorPartial == <<"L", "o", "i">>

\* The partial summaries a call can be given: nothing, a placeholder, the
\* extraction-error text, and summaries of 2, 3 and 6 characters, one of
\* them opening with "[".
Partials ==
    { <<>>, PlaceholderText, ExtractionErrorPartial, <<"a", "a">>,
      <<"[", "a", "]">>, <<"b", "b", "b", "b", "b", "b">> }

RECURSIVE SummaryListsOf(_)
SummaryListsOf(n) ==
    IF n = 0 THEN { <<>> }
    ELSE { Append(l, s) : l \in SummaryListsOf(n - 1), s \in Partials }

SummaryLists == UNION { SummaryListsOf(n) : n \in 0..MaxPartials }

\* "Không thể tạo tóm tắt do lỗi xử lý."
FailureMessage == <<"NO_SUMMARY">>

Ellipsis == <<".", ".", ".">>

\* s.startswith(prefix)
StartsWith(s, prefix) ==
    Len(s) >= Len(prefix) /\ SubSeq(s, 1, Len(prefix)) = prefix

IsValidSummary_nonempty(s) == s # <<>>

\* "s and not s.startswith('[Lỗi')"
IsValidSummary(s) == s # <<>> /\ ~StartsWith(s, ErrorPrefix)

\* [s for s in chunk_summaries if ...]
RECURSIVE FilterValid(_)
FilterValid(l) ==
    IF l = <<>> THEN <<>>
    ELSE IF IsValidSummary(Head(l)) THEN <<Head(l)>> \o FilterValid(Tail(l))
         ELSE FilterValid(Tail(l))

\* str(i) for the part numbers in use.
Digit(i) ==
    CASE i = 1 -> "1" [] i = 2 -> "2" [] i = 3 -> "3" [] i = 4 -> "4" [] OTHER -> "9"

\* f"Phần {i+1}: {s}" for the list index i + 1 = n
Labelled(n, s) == <<"P", "h", "a", "n", " ", Digit(n), ":", " ">> \o s

\* "\n\n".join(f"Phần {i+1}: {s}" ...), from the n-th valid summary on.
RECURSIVE JoinLabelled(_, _)
JoinLabelled(l, n) ==
    IF l = <<>> THEN <<>>
    ELSE IF Len(l) = 1 THEN Labelled(n, Head(l))
         ELSE Labelled(n, Head(l)) \o <<"NL", "NL">> \o JoinLabelled(Tail(l), n + 1)

\* s[:n]
Prefix(s, n) == SubSeq(s, 1, IF n < Len(s) THEN n ELSE Len(s))

FallbackSummary_untruncated(c, ml) == c

\* combined[:max_chars] + "..." if len(combined) > max_chars else combined
FallbackSummary(c, ml) ==
    IF Len(c) > ml * 5 THEN Prefix(c, ml * 5) \o Ellipsis ELSE c

\* _create_final_prompt: what of the arguments the prompt text carries.
_create_final_prompt(c, ml, num_parts) ==
    [combined |-> c, max_length |-> ml, num_parts |-> num_parts]

\* Responses of the completion service to the merge prompt: an object with
\* a .content string, a plain string, or a dict with a 'content' entry; the
\* text may be blank or come with surrounding whitespace.
MergeResponses ==
    { [shape |-> sh, content |-> c] :
        sh \in {"message", "str", "dict"},
        c \in { <<"s", "u", "m">>, <<" ", "s", "u", "m", "NL">>, <<" ">>, <<>> } }

\* _extract_response_text on these responses: every branch strips.
ExtractMergeText(response) == Strip(response.content)

\* The state in which create_final_summary is entered.
AggregatorStart ==
    /\ apc = "start"
    /\ valid_summaries = <<>>
    /\ combined = <<>>
    /\ merge_prompts = <<>>
    /\ merge_failed = FALSE
    /\ final_summary = <<>>

\* No call of create_final_summary is under way.
AggregatorIdle ==
    /\ chunk_summaries = <<>>
    /\ max_length = 0
    /\ AggregatorStart

\* create_final_summary up to the merge call: the filter, the fixed message
\* when nothing is left, the labelled join and the prompt.
FinalSummaryStart ==
    /\ UNCHANGED nonAggVars
    /\ apc = "start"
    /\ LET v == FilterValid(chunk_summaries)
           c == JoinLabelled(v, 1)
       IN  /\ valid_summaries' = v
           /\ IF v = <<>>
              THEN /\ final_summary' = FailureMessage
                   /\ apc' = "returned"
                   /\ UNCHANGED <<combined, merge_prompts>>
              ELSE /\ combined' = c
                   /\ merge_prompts' =
                        Append(merge_prompts, _create_final_prompt(c, max_length, Len(v)))
                   /\ apc' = "calling"
                   /\ final_summary' = final_summary
    /\ UNCHANGED <<chunk_summaries, max_length, merge_failed>>

\* The merge call returns: the extracted text is the final summary.
MergeCallReturns ==
    /\ UNCHANGED nonAggVars
    /\ apc = "calling"
    /\ \E r \in MergeResponses : final_summary' = ExtractMergeText(r)
    /\ apc' = "returned"
    /\ UNCHANGED <<chunk_summaries, max_length, valid_summaries, combined,
                   merge_prompts, merge_failed>>

\* The merge call raises: the handler falls back to the combined partials.
MergeCallRaises ==
    /\ UNCHANGED nonAggVars
    /\ apc = "calling"
    /\ \E e \in Errors : Caught(e)
    /\ merge_failed' = TRUE
    /\ final_summary' = FallbackSummary(combined, max_length)
    /\ apc' = "returned"
    /\ UNCHANGED <<chunk_summaries, max_length, valid_summaries, combined,
                   merge_prompts>>

\* The merge call is never answered: it is awaited without a timeout.
MergeCallHangs ==
    /\ UNCHANGED nonAggVars
    /\ apc = "calling"
    /\ apc' = "hung"
    /\ UNCHANGED <<chunk_summaries, max_length, valid_summaries, combined,
                   merge_prompts, merge_failed, final_summary>>

(***************************************************************************)
(* Part 5.  TextSummaryService.summarize_text                               *)
(*                                                                         *)
(* The chunked path runs chunk_document (Part 2) and create_final_summary   *)
(* (Part 4) on their own variables.  process_chunks_with_bedrock (Part 1)   *)
(* is taken by its outcome: one entry per chunk, the stripped text of the   *)
(* response or the placeholder of a failed call.                            *)
(***************************************************************************)

\* "if not text or len(text.strip()) < 50"
MIN_INPUT_LENGTH == 50

FAST_PROCESSING_THRESHOLD == 10000

\* DynamicSummaryConfig.MIN_SUMMARY_LENGTH
MIN_SUMMARY_LENGTH == 50

\* The texts submitted: too short ones, a short and a threshold-sized
\* document, and large documents of one, two and three chunks.
SumTexts ==
    { <<>>, <<" ">>, <<"c">>, <<"W">>, <<" ", "W", "NUL", "NL", "NL", "c", " ">>,
      <<"T">>, <<"T", ".", " ", "c">>, <<"X", ".", " ", "X">>,
      <<"X", "T", ":", "NL", "NL", "X">>,
      <<"X", "T", ".", " ", "X", "T", "!", " ", "X", "T">>,
      <<"X", ":", "NL", "NL", "c", ":", "NL", "NL", "X", ".", " ", "X">> }

\* _clean_text without the replacement of whitespace runs.
_clean_text_keep(t) == Strip(DropNul(t))

\* _clean_text: whitespace runs become one space, characters outside the
\* kept classes are removed, the result is stripped.
_clean_text(t) == Strip(DropNul(CollapseWS(t)))

\* calculate_optimal_max_length for the documents of SumTexts, which have
\* few words: the calculated length is the lower bound, and a max_length the
\* caller gave wins over it.
OptimalMaxLength(ml) == IF ml # 0 THEN ml ELSE MIN_SUMMARY_LENGTH

\* summarize_text: the max_length after the automatic adjustment.
AdjustedMaxLength(ml, adjust) ==
    IF adjust /\ 2 * (IF OptimalMaxLength(ml) >= ml THEN OptimalMaxLength(ml) - ml
                      ELSE ml - OptimalMaxLength(ml)) > ml
    THEN OptimalMaxLength(ml)
    ELSE ml

\* "Không thể tạo tóm tắt."
NoSummaryMessage == <<"NO_SINGLE_SUMMARY">>

NoSummaryResult == [summary |-> <<>>, processing_method |-> "none"]

\* The state in which summarize_text is entered.
SummarizerStart ==
    /\ spc = "start"
    /\ summary_result = NoSummaryResult

\* No call of summarize_text is under way.
SummarizerIdle ==
    /\ doc = <<>>
    /\ req_max_length = 0
    /\ auto_adjust_length = TRUE
    /\ has_bedrock = TRUE
    /\ SummarizerStart

\* summarize_text up to the choice of the path: the length check, the
\* cleaning, the fast path, and the chunking decision; on the chunked path
\* the service check of _summarize_with_chunking and the entry into
\* chunk_document(text, preserve_structure=True).
SummarizeStart ==
    /\ UNCHANGED <<orchVars, extVars, aggVars, smartVars, ocrVars>>
    /\ spc = "start"
    /\ LET cleaned == _clean_text(doc)
           direct  == IF has_bedrock THEN "direct_call" ELSE "raised"
       IN  IF doc = <<>> \/ PyLen(Strip(doc)) < MIN_INPUT_LENGTH
           THEN spc' = "raised" /\ UNCHANGED <<text, preserve_structure>>
           ELSE IF PyLen(cleaned) < FAST_PROCESSING_THRESHOLD
           THEN spc' = direct /\ UNCHANGED <<text, preserve_structure>>
           ELSE IF should_chunk_document(cleaned)
           THEN IF has_bedrock
                THEN /\ spc' = "chunking"
                     /\ text' = cleaned
                     /\ preserve_structure' = TRUE
                ELSE spc' = "raised" /\ UNCHANGED <<text, preserve_structure>>
           ELSE spc' = direct /\ UNCHANGED <<text, preserve_structure>>
    /\ UNCHANGED <<kpc, strategy, units, k, current_chunk, start_pos, out_chunks, result>>
    /\ UNCHANGED <<doc, req_max_length, auto_adjust_length, has_bedrock, summary_result>>

\* _summarize_direct: the call returns; an empty summary is the ValueError.
DirectCallReturns ==
    /\ UNCHANGED nonSumVars
    /\ spc = "direct_call"
    /\ \E r \in MergeResponses :
         LET summary == ExtractMergeText(r)
         IN  IF summary = <<>>
             THEN spc' = "raised" /\ summary_result' = summary_result
             ELSE /\ spc' = "returned"
                  /\ summary_result' =
                       [summary |-> summary, processing_method |-> "direct_ai_call"]
    /\ UNCHANGED <<doc, req_max_length, auto_adjust_length, has_bedrock>>

\* _summarize_direct: the call raises; summary stays None, the ValueError.
DirectCallRaises ==
    /\ UNCHANGED nonSumVars
    /\ spc = "direct_call"
    /\ \E e \in Errors : Caught(e)
    /\ spc' = "raised"
    /\ UNCHANGED <<doc, req_max_length, auto_adjust_length, has_bedrock, summary_result>>

\* The direct call is never answered: it is awaited without a timeout.
DirectCallHangs ==
    /\ UNCHANGED nonSumVars
    /\ spc = "direct_call"
    /\ spc' = "hung"
    /\ UNCHANGED <<doc, req_max_length, auto_adjust_length, has_bedrock, summary_result>>

\* _summarize_with_chunking, step 1: chunk_document runs.
SumChunkDocument ==
    /\ spc = "chunking"
    /\ \/ ChunkDocumentStart
       \/ ChunkLoopStep
       \/ ChunkDocumentFinish

\* _summarize_with_chunking, step 2: process_chunks_with_bedrock gives one
\* entry per chunk; then create_final_summary is entered if there is more
\* than one chunk.
SumProcessChunks ==
    /\ UNCHANGED <<orchVars, chunkVars, extVars, smartVars, ocrVars>>
    /\ spc = "chunking"
    /\ kpc = "done"
    /\ chunk_summaries' \in SummaryListsOf(Len(result.chunks))
    /\ max_length' = AdjustedMaxLength(req_max_length, auto_adjust_length)
    /\ spc' = IF Len(result.chunks) > 1 THEN "merging" ELSE "single"
    /\ UNCHANGED <<apc, valid_summaries, combined, merge_prompts, merge_failed,
                   final_summary>>
    /\ UNCHANGED <<doc, req_max_length, auto_adjust_length, has_bedrock, summary_result>>

\* A chunk call is never answered: process_chunks_with_bedrock never returns.
SumProcessHangs ==
    /\ UNCHANGED nonSumVars
    /\ spc = "chunking"
    /\ kpc = "done"
    /\ spc' = "hung"
    /\ UNCHANGED <<doc, req_max_length, auto_adjust_length, has_bedrock, summary_result>>

\* _summarize_with_chunking, step 3: create_final_summary runs.
SumCreateFinalSummary ==
    /\ spc = "merging"
    /\ \/ FinalSummaryStart
       \/ MergeCallReturns
       \/ MergeCallRaises
       \/ MergeCallHangs

\* _summarize_with_chunking: the response is built around final_summary, the
\* merged summary or, for a single chunk, the chunk's own entry;
\* bedrock_calls_made is the field of that name in processing_stats.
SummarizeFinish ==
    /\ UNCHANGED nonSumVars
    /\ \/ spc = "merging" /\ apc = "returned"
       \/ spc = "single"
    /\ LET final == IF spc = "merging" THEN final_summary
                    ELSE IF chunk_summaries # <<>> THEN chunk_summaries[1]
                    ELSE NoSummaryMessage
       IN  summary_result' =
             [ summary |-> final,
               processing_method |-> "chunked_bedrock_processing",
               bedrock_calls_made |->
                   Len(chunk_summaries) + (IF Len(result.chunks) > 1 THEN 1 ELSE 0) ]
    /\ spc' = "returned"
    /\ UNCHANGED <<doc, req_max_length, auto_adjust_length, has_bedrock>>

(***************************************************************************)
(* Part 6.  SmartChunkingService.chunk_document                            *)
(***************************************************************************)

\* Largest max_chunks argument; 0 stands for None.
MaxCap == 2

\* MAX_TOKENS_CLAUDE * CHARS_PER_TOKEN * 0.7 of SmartChunkingService
Smart_MAX_CHARS_PER_CHUNK == 560000

MIN_CHUNK_SIZE == 1000

\* MAX_CHARS_PER_CHUNK // 2
PREFERRED_CHUNK_SIZE == 280000

\* text.split('\n')
RECURSIVE LineSplit(_, _, _)
LineSplit(t, i, piece) ==
    IF i > Len(t) THEN << piece >>
    ELSE IF t[i] = "NL" THEN << piece >> \o LineSplit(t, i + 1, <<>>)
         ELSE LineSplit(t, i + 1, Append(piece, t[i]))

\* '|' in line or '\t' in line, or re.search(r'\s{3,}', line)
TableIndicator(line) ==
    \/ \E i \in 1..Len(line) : line[i] \in {"|", "TAB"}
    \/ \E i \in 1..Len(line) : \E j \in i..Len(line) :
           /\ \A n \in i..j : IsWS(line[n])
           /\ PyLen(SubSeq(line, i, j)) >= 3

\* table_indicators > len(lines) * 0.1
_detect_tables(t) ==
    LET lines == LineSplit(t, 1, <<>>)
    IN  10 * Cardinality({ i \in 1..Len(lines) : TableIndicator(lines[i]) })
            > Len(lines)

\* bool(self.section_headers.search(t)); section_headers is the pattern
\* SectionCount counts the matches of.
HasHeaders(t) == SectionCount(t, 1) >= 1

\* The indices where the matches of section_headers.finditer(t) start.
RECURSIVE SectionStarts(_, _)
SectionStarts(t, pos) ==
    IF pos > Len(t) THEN <<>>
    ELSE IF ~(pos = 1 \/ t[pos - 1] = "NL") THEN SectionStarts(t, pos + 1)
    ELSE LET q == SkipWordWS(t, pos)
         IN  IF q > Len(t) THEN <<>>
             ELSE IF t[q] \in {":", "-"}
                  THEN << pos >> \o SectionStarts(t, SkipWS(t, q + 1))
                  ELSE SectionStarts(t, q + 1)

\* The (section_start, section_end, section_text) triple of t[a..b].
Section(t, a, b) ==
    [ section_start |-> PyLen(SubSeq(t, 1, a - 1)),
      section_end   |-> PyLen(SubSeq(t, 1, b)),
      section_text  |-> SubSeq(t, a, b) ]

\* The loop of _split_by_sections: a is the index last_end stands at.
RECURSIVE SectionsFrom(_, _, _)
SectionsFrom(t, a, starts) ==
    IF starts = <<>>
    THEN IF a <= Len(t) THEN << Section(t, a, Len(t)) >> ELSE <<>>
    ELSE IF Head(starts) > a
         THEN << Section(t, a, Head(starts) - 1) >>
                  \o SectionsFrom(t, Head(starts), Tail(starts))
         ELSE SectionsFrom(t, Head(starts), Tail(starts))

_split_by_sections(t) ==
    IF SectionStarts(t, 1) = <<>> THEN << Section(t, 1, Len(t)) >>
    ELSE SectionsFrom(t, 1, SectionStarts(t, 1))

\* [s.strip() for s in self.sentence_endings.split(t) if s.strip()]
_split_by_sentences(t) == StripNonEmpty(SentenceSplit(t, 1, <<>>))

\* The ChunkInfo both strategies build from the running chunk.
ChunkInfo(current, id, start, end) ==
    [ content         |-> Strip(current),
      start_pos       |-> start,
      end_pos         |-> end,
      chunk_id        |-> id,
      word_count      |-> WordCount(current),
      char_count      |-> PyLen(current),
      has_headers     |-> HasHeaders(current),
      has_tables      |-> _detect_tables(current),
      context_overlap |-> <<>> ]

\* if current_chunk.strip(): chunks.append(ChunkInfo(...))
SaveChunk(cs, current, start, end) ==
    IF Strip(current) # <<>>
    THEN Append(cs, ChunkInfo(current, Len(cs), start, end))
    ELSE cs

\* The loop of _structure_aware_chunking and its final chunk.
RECURSIVE StructureLoop(_, _, _, _)
StructureLoop(sections, current, start, cs) ==
    IF sections = <<>>
    THEN SaveChunk(cs, current, start, start + PyLen(current))
    ELSE LET s == Head(sections)
         IN  IF PyLen(current) + PyLen(s.section_text) > PREFERRED_CHUNK_SIZE
             THEN StructureLoop(Tail(sections), s.section_text, s.section_start,
                      SaveChunk(cs, current, start, start + PyLen(current)))
             ELSE StructureLoop(Tail(sections), current \o s.section_text,
                      IF current = <<>> THEN s.section_start ELSE start, cs)

_structure_aware_chunking(t) ==
    StructureLoop(_split_by_sections(t), <<>>, 0, <<>>)

\* The loop over the sentences of one long paragraph; text_pos stays.
RECURSIVE SentenceLoop(_, _, _, _, _)
SentenceLoop(sentences, current, start, text_pos, cs) ==
    IF sentences = <<>>
    THEN [current |-> current, start |-> start, cs |-> cs]
    ELSE LET s == Head(sentences)
         IN  IF PyLen(current) + PyLen(s) > PREFERRED_CHUNK_SIZE
             THEN SentenceLoop(Tail(sentences), s, text_pos, text_pos,
                      SaveChunk(cs, current, start, text_pos))
             ELSE SentenceLoop(Tail(sentences),
                      IF current # <<>> THEN current \o <<" ">> \o s ELSE s,
                      start, text_pos, cs)

\* The loop of _simple_chunking over the paragraphs and its final chunk.
RECURSIVE ParagraphLoop(_, _, _, _, _)
ParagraphLoop(paragraphs, current, start, text_pos, cs) ==
    IF paragraphs = <<>>
    THEN SaveChunk(cs, current, start, text_pos)
    ELSE LET p    == Strip(Head(paragraphs))
             rest == Tail(paragraphs)
             next == text_pos + PyLen(p) + 2
         IN  IF p = <<>> THEN ParagraphLoop(rest, current, start, next, cs)
             ELSE IF PyLen(current) + PyLen(p) > PREFERRED_CHUNK_SIZE
             THEN IF PyLen(p) > PREFERRED_CHUNK_SIZE
                  THEN LET r == SentenceLoop(_split_by_sentences(p), current,
                                             start, text_pos, cs)
                       IN  ParagraphLoop(rest, r.current, r.start, next, r.cs)
                  ELSE ParagraphLoop(rest, p, text_pos, next,
                           SaveChunk(cs, current, start, text_pos))
             ELSE ParagraphLoop(rest,
                      IF current # <<>> THEN current \o <<"NL", "NL">> \o p ELSE p,
                      IF current = <<>> THEN text_pos ELSE start,
                      next, cs)

_simple_chunking(t) ==
    ParagraphLoop(ParagraphSplit(t, 1, <<>>), <<>>, 0, 0, <<>>)

\* "\n\n".join(chunk.content for chunk in group)
RECURSIVE JoinContents(_)
JoinContents(group) ==
    IF Len(group) = 1 THEN group[1].content
    ELSE group[1].content \o <<"NL", "NL">> \o JoinContents(Tail(group))

RECURSIVE SumWords(_)
SumWords(group) ==
    IF group = <<>> THEN 0 ELSE Head(group).word_count + SumWords(Tail(group))

\* The loop of _merge_chunks_to_limit from chunk i (1-based), group group_id.
RECURSIVE MergeLoop(_, _, _, _)
MergeLoop(cs, cap, i, group_id) ==
    IF i > Len(cs) THEN <<>>
    ELSE LET size  == (Len(cs) \div cap)
                          + (IF group_id < Len(cs) % cap THEN 1 ELSE 0)
             last  == IF i + size - 1 < Len(cs) THEN i + size - 1 ELSE Len(cs)
             group == SubSeq(cs, i, last)
         IN  << [ content         |-> JoinContents(group),
                  start_pos       |-> group[1].start_pos,
                  end_pos         |-> group[Len(group)].end_pos,
                  chunk_id        |-> group_id,
                  word_count      |-> SumWords(group),
                  char_count      |-> PyLen(JoinContents(group)),
                  has_headers     |-> \E n \in 1..Len(group) : group[n].has_headers,
                  has_tables      |-> \E n \in 1..Len(group) : group[n].has_tables,
                  context_overlap |-> <<>> ] >>
                 \o MergeLoop(cs, cap, i + size, group_id + 1)

\* _merge_chunks_to_limit keeping the first cap chunks only.
_merge_chunks_to_limit_first(cs, cap) ==
    IF Len(cs) <= cap THEN cs ELSE SubSeq(cs, 1, cap)

_merge_chunks_to_limit(cs, cap) ==
    IF Len(cs) <= cap THEN cs ELSE MergeLoop(cs, cap, 1, 0)

\* _add_context_overlap: context_overlap is kept as the list of its parts,
\* "prev" for the quote of the end of the previous chunk's content and "next"
\* for the quote of the start of the next chunk's content.
_add_context_overlap(cs) ==
    IF Len(cs) <= 1 THEN cs
    ELSE [ i \in 1..Len(cs) |->
             [ cs[i] EXCEPT !.context_overlap =
                 (IF i > 1 THEN <<"prev">> ELSE <<>>)
                     \o (IF i < Len(cs) THEN <<"next">> ELSE <<>>) ] ]

\* The single ChunkInfo of a text that is not split: content is the text
\* as passed in.
WholeText(t) ==
    [ content         |-> t,
      start_pos       |-> 0,
      end_pos         |-> PyLen(t),
      chunk_id        |-> 0,
      word_count      |-> WordCount(t),
      char_count      |-> PyLen(t),
      has_headers     |-> HasHeaders(t),
      has_tables      |-> _detect_tables(t),
      context_overlap |-> <<>> ]

\* SmartChunkingService.chunk_document(t, preserve, cap)
chunk_document(t, preserve, cap) ==
    IF t = <<>> \/ PyLen(Strip(t)) < MIN_CHUNK_SIZE THEN << WholeText(t) >>
    ELSE IF PyLen(t) <= Smart_MAX_CHARS_PER_CHUNK THEN << WholeText(t) >>
    ELSE LET cs == IF preserve THEN _structure_aware_chunking(t)
                   ELSE _simple_chunking(t)
         IN  _add_context_overlap(
                 IF cap # 0 /\ Len(cs) > cap THEN _merge_chunks_to_limit(cs, cap)
                 ELSE cs)

\* Largest number of 252000-letter blocks in a text given to
\* SmartChunkingService alone.
MaxBlocks == 5

\* What stands between two blocks: a sentence end, a paragraph break, or a
\* header colon with a paragraph break.
Gaps == { <<".", " ">>, <<"NL", "NL">>, <<":", "NL", "NL">> }

RECURSIVE BlockTextsOf(_)
BlockTextsOf(n) ==
    IF n = 1 THEN { <<"X">> }
    ELSE { t \o g \o <<"X">> : t \in BlockTextsOf(n - 1), g \in Gaps }

BlockTexts == UNION { BlockTextsOf(n) : n \in 1..MaxBlocks }

\* The state before SmartChunkingService.chunk_document is called.
SmartStart ==
    /\ mpc = "start"
    /\ max_chunks = 0
    /\ smart_chunks = <<>>

\* The state of a run that does not use SmartChunkingService.
SmartIdle ==
    /\ mpc = "idle"
    /\ max_chunks = 0
    /\ smart_chunks = <<>>

\* SmartChunkingService.chunk_document called on text with preserve_structure
\* and some max_chunks.
SmartChunkDocument ==
    /\ UNCHANGED nonSmartVars
    /\ mpc = "start"
    /\ \E cap \in 0..MaxCap :
          /\ max_chunks' = cap
          /\ smart_chunks' = chunk_document(text, preserve_structure, cap)
    /\ mpc' = "done"

(***************************************************************************)
(* Part 7.  LightweightOCR.extract_text_from_pdf                           *)
(***************************************************************************)

\* Largest number of page images a PDF is rasterized to.
MaxImages == 3

\* What pytesseract.image_to_string gives for a page image: it raises, or
\* returns one of these texts (nothing, whitespace only, one letter, a line,
\* a line in whitespace, two lines around an artifact character).
ImageTexts ==
    { <<>>, <<"GAP">>, <<"c">>, <<"W">>, <<" ", "W", "NL">>,
      <<"W", " ", "@", "NL", "W">> }

ImageKinds == ImageTexts \cup { RAISES }

RECURSIVE ImageListsOf(_)
ImageListsOf(n) ==
    IF n = 0 THEN { <<>> }
    ELSE { Append(l, i) : l \in ImageListsOf(n - 1), i \in ImageKinds }

ImageLists == UNION { ImageListsOf(n) : n \in 0..MaxImages }

\* [^\w\sÀ-ỹ.,!?;:()\-"'%]: the characters _clean_ocr_text removes.
IsArtifact(c) == c \in {"@", "|", "NUL", "NULS", "FFFD"}

RECURSIVE DropArtifacts(_)
DropArtifacts(t) ==
    IF t = <<>> THEN <<>>
    ELSE IF IsArtifact(Head(t)) THEN DropArtifacts(Tail(t))
         ELSE <<Head(t)>> \o DropArtifacts(Tail(t))

\* _clean_ocr_text: whitespace runs to one space, artifacts out, strip. The
\* replacements table maps each character to itself.
_clean_ocr_text(t) ==
    IF t = <<>> THEN <<>> ELSE Strip(DropArtifacts(CollapseWS(t)))

\* "len(page_text.strip()) > 0": any text counts as meaningful.
IsMeaningful_nonempty(page_text) == PyLen(Strip(page_text)) > 0

\* "len(page_text.strip()) > 10": only pages with meaningful text count.
IsMeaningful(page_text) == PyLen(Strip(page_text)) > 10

\* The entry of pages_data for a page that was read.
PageData(n, page_text) ==
    [ page_number |-> n,
      text        |-> page_text,
      char_count  |-> PyLen(page_text),
      word_count  |-> WordCount(page_text),
      error       |-> "none" ]

\* The entry of pages_data for a page on which Tesseract raised.
PageFailure(n) ==
    [ page_number |-> n,
      text        |-> <<>>,
      char_count  |-> 0,
      word_count  |-> 0,
      error       |-> "exception" ]

\* The failure dictionaries: success False, text '', an error message.
OcrFailure(error, ps) ==
    [ success |-> FALSE, text |-> <<>>, pages |-> ps, error |-> error ]

NoOcrDict == [ success |-> FALSE, text |-> <<>>, pages |-> <<>>, error |-> "not_called" ]

\* The state before LightweightOCR.extract_text_from_pdf is called.
TesseractStart ==
    /\ lpc = "start"
    /\ page_num = 1
    /\ all_text = <<>>
    /\ pages_data = <<>>
    /\ successful_pages = 0
    /\ ocr_dict = NoOcrDict

\* The state of a run that does not use LightweightOCR.
TesseractIdle ==
    /\ available = FALSE
    /\ conversion = "fails"
    /\ images = <<>>
    /\ lpc = "idle"
    /\ page_num = 1
    /\ all_text = <<>>
    /\ pages_data = <<>>
    /\ successful_pages = 0
    /\ ocr_dict = NoOcrDict

\* extract_text_from_pdf up to the call of _extract_with_tesseract: without
\* Tesseract, and without page images (_pdf_to_images returns [] when the
\* conversion fails), a failure dictionary is returned.
OcrExtractStart ==
    /\ UNCHANGED nonOcrVars
    /\ lpc = "start"
    /\ IF ~available
       THEN /\ lpc' = "returned"
            /\ ocr_dict' = OcrFailure("unavailable", <<>>)
       ELSE IF conversion = "fails" \/ images = <<>>
       THEN /\ lpc' = "returned"
            /\ ocr_dict' = OcrFailure("no_images", <<>>)
       ELSE /\ lpc' = "loop"
            /\ ocr_dict' = ocr_dict
    /\ UNCHANGED <<available, conversion, images, page_num, all_text, pages_data,
                   successful_pages>>

\* One iteration of the page loop of _extract_with_tesseract.
TesseractPage ==
    /\ UNCHANGED nonOcrVars
    /\ lpc = "loop"
    /\ page_num <= Len(images)
    /\ IF images[page_num] = RAISES
       THEN /\ pages_data' = Append(pages_data, PageFailure(page_num))
            /\ UNCHANGED <<all_text, successful_pages>>
       ELSE LET page_text == _clean_ocr_text(images[page_num])
            IN  /\ pages_data' = Append(pages_data, PageData(page_num, page_text))
                /\ IF IsMeaningful(page_text)
                   THEN /\ all_text' = all_text \o page_text \o <<"NL", "NL">>
                        /\ successful_pages' = successful_pages + 1
                   ELSE UNCHANGED <<all_text, successful_pages>>
    /\ page_num' = page_num + 1
    /\ UNCHANGED <<available, conversion, images, lpc, ocr_dict>>

\* After the loop: the dictionary _extract_with_tesseract returns. Saving
\* the text to a file changes nothing and its errors are swallowed.
TesseractFinish ==
    /\ UNCHANGED nonOcrVars
    /\ lpc = "loop"
    /\ page_num > Len(images)
    /\ ocr_dict' = IF successful_pages > 0
                   THEN [ success |-> TRUE, text |-> Strip(all_text),
                          pages |-> pages_data, error |-> "none" ]
                   ELSE OcrFailure("no_text", pages_data)
    /\ lpc' = "returned"
    /\ UNCHANGED <<available, conversion, images, page_num, all_text, pages_data,
                   successful_pages>>

(***************************************************************************)
(* Specifications                                                           *)
(***************************************************************************)

OrchInit ==
    /\ OrchStart
    /\ text = <<>>
    /\ preserve_structure = TRUE
    /\ ChunkerIdle
    /\ ExtractorIdle
    /\ AggregatorIdle
    /\ SummarizerIdle
    /\ SmartIdle
    /\ TesseractIdle

OrchNext == OrchStep

OrchSpec == OrchInit /\ [][OrchNext]_vars

\* The event loop runs every task that can run, and the service answers every
\* call it has not dropped: any enabled step is eventually taken.
OrchFairSpec == OrchSpec /\ WF_vars(OrchNext)

ChunkInit ==
    /\ text \in Texts
    /\ preserve_structure \in BOOLEAN
    /\ ChunkerIdle
    /\ OrchIdle
    /\ ExtractorIdle
    /\ AggregatorIdle
    /\ SummarizerIdle
    /\ SmartIdle
    /\ TesseractIdle

ChunkNext ==
    \/ ChunkDocumentStart
    \/ ChunkLoopStep
    \/ ChunkDocumentFinish

ChunkSpec == ChunkInit /\ [][ChunkNext]_vars

ExtractInit ==
    /\ reader \in {"ok", "strict_fails", "broken"}
    /\ pages \in Pdfs
    /\ max_pages \in 0..1
    /\ ocr_engine \in OcrOutcomes
    /\ ExtractorStart
    /\ OrchIdle
    /\ text = <<>>
    /\ preserve_structure = TRUE
    /\ ChunkerIdle
    /\ AggregatorIdle
    /\ SummarizerIdle
    /\ SmartIdle
    /\ TesseractIdle

ExtractNext ==
    \/ TryPypdfMethod
    \/ CheckPypdfResult
    \/ OcrAnalyze
    \/ OcrPerform
    \/ ExtractFinish

ExtractSpec == ExtractInit /\ [][ExtractNext]_vars

AggInit ==
    /\ chunk_summaries \in SummaryLists
    /\ max_length \in 0..MaxLength
    /\ AggregatorStart
    /\ OrchIdle
    /\ text = <<>>
    /\ preserve_structure = TRUE
    /\ ChunkerIdle
    /\ ExtractorIdle
    /\ SummarizerIdle
    /\ SmartIdle
    /\ TesseractIdle

AggNext ==
    \/ FinalSummaryStart
    \/ MergeCallReturns
    \/ MergeCallRaises
    \/ MergeCallHangs

AggSpec == AggInit /\ [][AggNext]_vars

SumInit ==
    /\ doc \in SumTexts
    /\ req_max_length \in 0..MaxLength
    /\ auto_adjust_length \in BOOLEAN
    /\ has_bedrock \in BOOLEAN
    /\ SummarizerStart
    /\ OrchIdle
    /\ text = <<>>
    /\ preserve_structure = TRUE
    /\ ChunkerIdle
    /\ ExtractorIdle
    /\ AggregatorIdle
    /\ SmartIdle
    /\ TesseractIdle

SumNext ==
    \/ SummarizeStart
    \/ DirectCallReturns
    \/ DirectCallRaises
    \/ DirectCallHangs
    \/ SumChunkDocument
    \/ SumProcessChunks
    \/ SumProcessHangs
    \/ SumCreateFinalSummary
    \/ SummarizeFinish

SumSpec == SumInit /\ [][SumNext]_vars

\* Both chunkers are given the same text.
SmartInit ==
    /\ text \in Texts
    /\ preserve_structure \in BOOLEAN
    /\ ChunkerIdle
    /\ SmartStart
    /\ TesseractIdle
    /\ OrchIdle
    /\ ExtractorIdle
    /\ AggregatorIdle
    /\ SummarizerIdle

SmartNext ==
    \/ ChunkDocumentStart
    \/ ChunkLoopStep
    \/ ChunkDocumentFinish
    \/ SmartChunkDocument

SmartSpec == SmartInit /\ [][SmartNext]_vars

\* SmartChunkingService.chunk_document alone, on texts of several blocks.
MergeInit ==
    /\ text \in BlockTexts
    /\ preserve_structure \in BOOLEAN
    /\ ChunkerIdle
    /\ SmartStart
    /\ TesseractIdle
    /\ OrchIdle
    /\ ExtractorIdle
    /\ AggregatorIdle
    /\ SummarizerIdle

MergeNext == SmartChunkDocument

MergeSpec == MergeInit /\ [][MergeNext]_vars

OcrInit ==
    /\ available \in BOOLEAN
    /\ conversion \in {"ok", "fails"}
    /\ images \in ImageLists
    /\ TesseractStart
    /\ OrchIdle
    /\ text = <<>>
    /\ preserve_structure = TRUE
    /\ ChunkerIdle
    /\ ExtractorIdle
    /\ AggregatorIdle
    /\ SummarizerIdle
    /\ SmartIdle

OcrNext ==
    \/ OcrExtractStart
    \/ TesseractPage
    \/ TesseractFinish

OcrSpec == OcrInit /\ [][OcrNext]_vars

(***************************************************************************)
(* Claims about the orchestrator                                            *)
(***************************************************************************)

\* What chunk i's completion call came to: its summary, or the placeholder
\* naming the chunk with the error text the call raised.
OutcomeOf(i) ==
    IF served[i] = "returned"
    THEN SummaryText(chunks[i].content)
    ELSE Placeholder(chunks[i].chunk_id, served[i])

\* C1: parallel dispatch preserves order. Whatever the order in which the
\* concurrent calls finish, the list returned in parallel mode has exactly N
\* entries and its i-th entry is the outcome of the i-th input chunk.
C1_ParallelOrderPreserved ==
    (opc = "returned" /\ mode = "parallel")
        => /\ Len(ret) = N
           /\ \A i \in 1..N : ret[i] = OutcomeOf(i)

\* C1 witness: a full parallel batch has returned after some task finished
\* before a task that precedes it in the list.
C1_Witness ==
    /\ opc = "returned"
    /\ mode = "parallel"
    /\ N = PARALLEL_THRESHOLD
    /\ max_parallel > 1
    /\ overtaken

\* C2: per-chunk failure is absorbed. In either mode the operation never
\* raises; once it has returned there are exactly N entries, every index whose
\* call raised holds the placeholder naming that chunk with the error text,
\* and every other index holds the chunk's summary.
C2_FailureAbsorbed ==
    /\ opc # "raised"
    /\ opc = "returned" =>
         /\ Len(ret) = N
         /\ \A i \in 1..N :
              /\ served[i] \in Errors =>
                   ret[i] = [kind |-> "error", chunk |-> i - 1,
                             text |-> served[i], pad |-> FALSE]
              /\ served[i] \notin Errors =>
                   /\ ret[i].kind = "summary"
                   /\ ret[i].chunk = chunks[i].content

\* C2 witness: a sequential batch has returned with a failed chunk between
\* two summarized ones.
C2_Witness ==
    /\ opc = "returned"
    /\ mode = "sequential"
    /\ \E i \in 2..(N - 1) :
         /\ served[i] \in Errors
         /\ served[i - 1] = "returned"
         /\ served[i + 1] = "returned"

\* C3: bounded parallelism. In parallel mode at most max_parallel
\* completion-service calls are in flight at any moment.
C3_BoundedParallelism ==
    mode = "parallel" => Cardinality(InFlight) <= max_parallel

\* C3 witness: every permit is taken by a call in flight while another task
\* still waits for the semaphore.
C3_Witness ==
    /\ mode = "parallel"
    /\ max_parallel > 1
    /\ Cardinality(InFlight) = max_parallel
    /\ \E i \in 1..N : tpc[i] = "pending"

\* C4 (as claimed): no chunk call can hang the batch. Every call is bounded
\* by a timeout, so the operation eventually returns its N results even when
\* the service never answers one of the calls.
C4_NoCallHangsTheBatch ==
    <>(opc = "returned" /\ Len(ret) = N)

\* C5 (as claimed): sequential mode waits RATE_LIMIT_DELAY between every pair
\* of calls. Whenever the call of a chunk other than the first has been
\* issued, the delay had elapsed since the call of the chunk before ended.
C5_DelayBetweenEveryPair ==
    mode = "sequential" =>
        \A i \in 2..N : call[i] # "none" => waited[i]

\* C6: mode selection. Dispatch is parallel iff there are at most
\* PARALLEL_THRESHOLD chunks; with more chunks the calls are issued in chunk
\* order with never more than one in flight and none started before the one
\* before it ended; an empty list returns an empty list without dispatching.
C6_ModeSelection ==
    /\ (opc # "start" /\ N = 0) => (mode = "none" /\ opc = "returned" /\ ret = <<>>)
    /\ (opc # "start" /\ N > 0) => (mode = "parallel" <=> N <= PARALLEL_THRESHOLD)
    /\ (opc # "start" /\ N > PARALLEL_THRESHOLD) =>
         /\ mode = "sequential"
         /\ Cardinality(InFlight) <= 1
         /\ \A i, j \in 1..N : (i < j /\ call[j] # "none") => call[i] = "done"

\* C6 witness: a batch one chunk above the threshold has gone through the
\* sequential loop and returned.
C6_Witness ==
    /\ opc = "returned"
    /\ mode = "sequential"
    /\ N = PARALLEL_THRESHOLD + 1
    /\ \A i \in 1..N : call[i] = "done"

(***************************************************************************)
(* Claims about the chunker                                                 *)
(***************************************************************************)

\* The contents of the chunks, concatenated in list (chunk_id) order.
RECURSIVE ConcatContents(_)
ConcatContents(cs) ==
    IF cs = <<>> THEN <<>> ELSE Head(cs).content \o ConcatContents(Tail(cs))

Chunked == kpc = "done" /\ result.processing_strategy # "single_chunk"

\* C7 (as claimed): chunk coverage. For every text that triggers chunking,
\* under either strategy, the chunk contents concatenated in chunk_id order
\* are the stripped input text, character for character.
C7_ContentsReconstructText ==
    Chunked => ConcatContents(result.chunks) = Strip(text)

\* A chunk that is one sentence: no terminal punctuation followed by
\* whitespace inside it, so the sentence pattern cannot split it.
SingleUnsplittable(c) ==
    Len(StripNonEmpty(SentenceSplit(c.content, 1, <<>>))) = 1

\* C8 (as claimed): size invariant. Every chunk of chunk_document has
\* char_count <= MAX_CHARS_PER_CHUNK unless it is one single unsplittable
\* sentence longer than the budget; a chunk assembled from several units
\* with their separators never exceeds the budget.
C8_ChunkWithinBudget ==
    kpc = "done" =>
        \A i \in 1..Len(result.chunks) :
            \/ result.chunks[i].char_count <= MAX_CHARS_PER_CHUNK
            \/ SingleUnsplittable(result.chunks[i])

(***************************************************************************)
(* Claims about the extraction cascade                                     *)
(***************************************************************************)

Rank(name) ==
    CASE name = "strict"           -> 1
      [] name = "warnings_ignored" -> 2
      [] name = "page_by_page"     -> 3
      [] name = "ocr"              -> 4

OcrAttempted == \E i \in 1..Len(attempted) : attempted[i] = "ocr"

ExtractOver == xpc \in {"returned", "raised"}

\* C9: the strategies are attempted in the order strict, warnings-ignored,
\* page-by-page; a strategy that raised or gave invalid text is followed by
\* the next one; the first strategy whose text is valid determines the
\* result, with source pypdf2, and nothing is attempted after it; OCR is
\* attempted only after all three strategies were attempted and none of them
\* gave valid text.
C9_CascadeOrdering ==
    /\ \A i, j \in 1..Len(attempted) :
         i < j => Rank(attempted[i]) < Rank(attempted[j])
    /\ (xpc # "pypdf" /\ first_valid = 0) =>
         \A n \in 1..3 : \E i \in 1..Len(attempted) : attempted[i] = MethodName(n)
    /\ first_valid # 0 =>
         /\ Len(attempted) = first_valid
         /\ ExtractOver =>
              /\ xpc = "returned"
              /\ output.source = "pypdf2"
              /\ output.text = _clean_extracted_text(PypdfMethod(first_valid).text)
    /\ OcrAttempted =>
         /\ first_valid = 0
         /\ Len(attempted) = 4

AllPypdfInvalid ==
    \A n \in 1..3 : PypdfMethod(n).raised \/ ~_is_valid_text(PypdfMethod(n).text)

OcrFailed == ocr_outcome.kind \in {"import_error", "exception", "failure"}

\* C10: when the three PyPDF2 strategies all yield invalid text and OCR
\* fails, extract_text_from_pdf raises the diagnostic error; and a result it
\* returns never carries a text that was not extracted from the document.
C10_TotalFailureRaises ==
    /\ (ExtractOver /\ AllPypdfInvalid /\ OcrFailed) => xpc = "raised"
    /\ xpc = "returned" => output.text # _clean_extracted_text(FallbackMessage)

OcrYieldsValid ==
    /\ ocr_engine.kind = "success"
    /\ ocr_engine.text # <<>>
    /\ PyLen(Strip(ocr_engine.text)) > MIN_TEXT_LENGTH
    /\ 100 * MetadataChars(Strip(ocr_engine.text))
         <= METADATA_THRESHOLD_PCT * PyLen(ocr_engine.text)

Sampled == 1..(IF Len(pages) < 3 THEN Len(pages) ELSE 3)

PageHasText(i) ==
    /\ pages[i].txt # RAISES
    /\ PyLen(Strip(pages[i].txt)) > 10

\* OCR is warranted: the PDF opens, and no sampled page has more than 10
\* characters of text, or a sampled page before the first such page has an
\* image.
OcrWarranted ==
    /\ reader # "broken"
    /\ \/ \A i \in Sampled : ~PageHasText(i)
       \/ \E i \in Sampled :
            /\ pages[i].txt # RAISES
            /\ pages[i].img
            /\ \A j \in 1..i : ~PageHasText(j)

ChunkerOver == kpc \in {"done", "raised"}

\* C12: chunk_document raises for the empty string and for every
\* whitespace-only string, and never returns a chunk whose content is empty.
C12_BlankInputRejected ==
    /\ (ChunkerOver /\ Strip(text) = <<>>) => kpc = "raised"
    /\ kpc = "done" =>
         \A i \in 1..Len(result.chunks) : result.chunks[i].content # <<>>

\* C13: every structured text longer than the large-document threshold,
\* chunked with preserve_structure = TRUE, comes back with strategy
\* structure_aware and with more than one chunk.
C13_StructuredLargeTextIsSplit ==
    ( /\ kpc = "done"
      /\ preserve_structure
      /\ PyLen(Strip(text)) > LARGE_DOCUMENT_THRESHOLD
      /\ _has_structure(Strip(text)) ) =>
        /\ result.processing_strategy = "structure_aware"
        /\ result.total_chunks > 1

\* C14: small-document passthrough. For every non-empty text whose trimmed
\* length is at most LARGE_DOCUMENT_THRESHOLD, and either value of
\* preserve_structure, chunk_document returns exactly one chunk, with
\* chunk_id 0, start_pos 0 and the trimmed text as content, and strategy
\* single_chunk.
C14_SmallDocumentPassthrough ==
    ( /\ ChunkerOver
      /\ text # <<>>
      /\ PyLen(RStrip(LStrip(text))) <= LARGE_DOCUMENT_THRESHOLD ) =>
        /\ kpc = "done"
        /\ result.processing_strategy = "single_chunk"
        /\ result.total_chunks = 1
        /\ Len(result.chunks) = 1
        /\ result.chunks[1].chunk_id = 0
        /\ result.chunks[1].start_pos = 0
        /\ result.chunks[1].content = RStrip(LStrip(text))

\* C14 witness: a text padded with whitespace whose trimmed length is exactly
\* the threshold came back as the single chunk, with structure preserved or not.
C14_Witness ==
    /\ kpc = "done"
    /\ text # RStrip(LStrip(text))
    /\ PyLen(RStrip(LStrip(text))) = LARGE_DOCUMENT_THRESHOLD
    /\ ~preserve_structure
    /\ result.processing_strategy = "single_chunk"
    /\ result.chunks[1].content = RStrip(LStrip(text))

(***************************************************************************)
(* Claims about the final summary                                          *)
(***************************************************************************)

\* The partial summaries of l that are neither empty nor a placeholder.
RECURSIVE NonPlaceholders(_)
NonPlaceholders(l) ==
    IF l = <<>> THEN <<>>
    ELSE IF Head(l) # <<>> /\ Head(l) # PlaceholderText
         THEN <<Head(l)>> \o NonPlaceholders(Tail(l))
         ELSE NonPlaceholders(Tail(l))

\* The labelled partial summaries that are no placeholder, joined.
LabelledValid == JoinLabelled(NonPlaceholders(chunk_summaries), 1)

Occurs(sub, s) ==
    \E i \in 1..Len(s) :
        i + Len(sub) - 1 <= Len(s) /\ SubSeq(s, i, i + Len(sub) - 1) = sub

\* C15: merge fallback. When the merge call raised, create_final_summary has
\* returned a non-empty string of at most max_length*5 + 3 characters: the
\* labelled non-placeholder partial summaries joined, or the first
\* max_length*5 characters of that followed by "..." when it is longer; no
\* placeholder text occurs in it.
C15_MergeFallback ==
    merge_failed =>
        /\ apc = "returned"
        /\ final_summary # <<>>
        /\ Len(final_summary) <= max_length * 5 + 3
        /\ IF Len(LabelledValid) > max_length * 5
           THEN final_summary = SubSeq(LabelledValid, 1, max_length * 5) \o <<".", ".", ".">>
           ELSE final_summary = LabelledValid
        /\ ~Occurs(ErrorPrefix, final_summary)

\* C15 witness: the merge call raised for a list holding a placeholder and
\* the fallback came back truncated.
C15_Witness ==
    /\ merge_failed
    /\ apc = "returned"
    /\ max_length > 0
    /\ \E i \in 1..Len(chunk_summaries) : chunk_summaries[i] = PlaceholderText
    /\ Len(LabelledValid) > max_length * 5
    /\ Len(final_summary) = max_length * 5 + 3

\* C16: no merge call without valid partials. When every partial summary is
\* a placeholder or empty, create_final_summary returns the fixed failure
\* message and issues no call; otherwise it issues exactly one merge call,
\* whose prompt holds exactly the non-placeholder partials, in their
\* original order, labelled consecutively from 1.
C16_MergeCallOnlyWithValidPartials ==
    /\ apc = "start" => merge_prompts = <<>>
    /\ apc # "start" =>
         IF NonPlaceholders(chunk_summaries) = <<>>
         THEN /\ apc = "returned"
              /\ final_summary = FailureMessage
              /\ merge_prompts = <<>>
         ELSE /\ Len(merge_prompts) = 1
              /\ merge_prompts[1].combined = LabelledValid
              /\ merge_prompts[1].num_parts = Len(NonPlaceholders(chunk_summaries))

\* C16 witness: a list that opens with a placeholder and holds two valid
\* partial summaries after it was merged with one call.
C16_Witness ==
    /\ apc = "returned"
    /\ Len(chunk_summaries) = 3
    /\ chunk_summaries[1] = PlaceholderText
    /\ Len(NonPlaceholders(chunk_summaries)) = 2
    /\ Len(merge_prompts) = 1
    /\ ~merge_failed

(***************************************************************************)
(* Claims about summarize_text                                             *)
(***************************************************************************)

\* C17: no empty success payload. On every path of summarize_text (direct,
\* chunked with one chunk, chunked with a merge call) a result that is
\* returned carries a non-empty summary; otherwise an error is raised.
C17_NoEmptySuccess ==
    spc = "returned" => summary_result.summary # <<>>

(***************************************************************************)
(* Further claims about the extraction cascade                             *)
(***************************************************************************)

\* C18: extraction never yields a silently empty result. extract_text_from_pdf
\* ends in one of two ways: a result whose text is non-empty after trimming,
\* or the raised diagnostic error with no result; a strategy whose text is
\* empty after cleaning gives no success result; before one of the two ends
\* the function is inside the cascade, where no exception leaves it.
C18_NeverSilentlyEmpty ==
    /\ xpc = "returned" =>
         /\ output.source \in {"pypdf2", "ocr"}
         /\ RStrip(LStrip(output.text)) # <<>>
    /\ xpc = "raised" => output = NoOutput
    /\ (ExtractOver /\ first_valid # 0
          /\ Strip(DropNul(CollapseWS(PypdfMethod(first_valid).text))) = <<>>) =>
         output.source # "pypdf2"
    /\ ~ExtractOver => xpc \in {"pypdf", "validate", "ocr", "ocr_run", "ocr_done"}

\* C18 witness: a strategy's text was valid as extracted and empty after
\* cleaning, and the call ended with the error.
C18_Witness ==
    /\ xpc = "raised"
    /\ first_valid # 0
    /\ PypdfMethod(first_valid).text # <<>>
    /\ Strip(DropNul(CollapseWS(PypdfMethod(first_valid).text))) = <<>>

(***************************************************************************)
(* Claims about chunk positions and derived counts                         *)
(***************************************************************************)

\* C19 (as claimed): chunk position ranges partition the text. In every chunk
\* list produced for a text that triggers chunking, each chunk has
\* end_pos > start_pos, the first chunk starts at 0, and consecutive chunks
\* meet: chunks[i].end_pos = chunks[i+1].start_pos.
C19_PositionsPartition ==
    Chunked =>
        /\ result.chunks[1].start_pos = 0
        /\ \A i \in 1..Len(result.chunks) :
               result.chunks[i].end_pos > result.chunks[i].start_pos
        /\ \A i \in 1..(Len(result.chunks) - 1) :
               result.chunks[i].end_pos = result.chunks[i + 1].start_pos

\* char_count and word_count are those of content, and content is trimmed.
CountsMatchContent(c) ==
    /\ c.char_count = PyLen(c.content)
    /\ c.word_count = WordCount(c.content)
    /\ Strip(c.content) = c.content

\* C20 (as claimed): derived counts match content. For every chunk returned
\* by either chunker, DocumentChunkingHelper or SmartChunkingService (chunks
\* merged down to a max_chunks cap included), char_count is the length of
\* content, word_count is the number of whitespace-separated words of
\* content, and content has no leading or trailing whitespace.
C20_DerivedCountsMatchContent ==
    /\ kpc = "done" =>
           \A i \in 1..Len(result.chunks) : CountsMatchContent(result.chunks[i])
    /\ mpc = "done" =>
           \A i \in 1..Len(smart_chunks) : CountsMatchContent(smart_chunks[i])

(***************************************************************************)
(* Claims about the ChunkingResult                                         *)
(***************************************************************************)

\* char_count of the first n chunks, added up.
RECURSIVE CharCountUpTo(_, _)
CharCountUpTo(cs, n) ==
    IF n = 0 THEN 0 ELSE cs[n].char_count + CharCountUpTo(cs, n - 1)

\* C21: ChunkingResult consistency. For every ChunkingResult chunk_document
\* returns, on the single-chunk and on the chunked path, total_chunks is the
\* number of chunks and at least 1, total_chars is the sum of the chunks'
\* char_count, and the chunk_id values are 0, 1, ..., total_chunks - 1 in
\* list order.
C21_ChunkingResultConsistent ==
    kpc = "done" =>
        /\ result.total_chunks = Len(result.chunks)
        /\ result.total_chunks >= 1
        /\ result.total_chars = CharCountUpTo(result.chunks, Len(result.chunks))
        /\ \A i \in 1..Len(result.chunks) : result.chunks[i].chunk_id = i - 1

\* chunk_document returned three chunks or more.
C21_Witness ==
    /\ kpc = "done"
    /\ result.processing_strategy # "single_chunk"
    /\ result.total_chunks >= 3

(***************************************************************************)
(* Claims about failed chunks in the final summary                         *)
(***************************************************************************)

\* The partials that stand for a chunk without summary text: the placeholder
\* of a call that raised and the text of a response that was not converted.
FailurePartials == { PlaceholderText, ExtractionErrorPartial }

\* C22 (as claimed): every chunk for which no summary text could be obtained,
\* whether the completion call raised or its response could not be converted
\* to text, is represented by a partial that create_final_summary filters
\* out: neither the merge prompt nor the truncation fallback contains the
\* text of such a partial.
C22_FailedChunksFilteredOut ==
    \A f \in FailurePartials :
        /\ \A i \in 1..Len(merge_prompts) : ~Occurs(f, merge_prompts[i].combined)
        /\ (merge_failed /\ apc = "returned") => ~Occurs(f, final_summary)

(***************************************************************************)
(* Claims about the OCR decision                                           *)
(***************************************************************************)

SampledHasText == \E i \in Sampled : PageHasText(i)

\* C23 (as claimed): the OCR decision. Over the sampled pages (the first up
\* to 3), if any sampled page has more than 10 characters of extractable
\* text then OCR is skipped: the OCR strategy returns no text and the engine
\* is not run, whichever position that page has and whether or not other
\* sampled pages hold images. Otherwise OCR is attempted.
C23_OcrDecision ==
    (OcrAttempted /\ reader # "broken") =>
        IF SampledHasText
        THEN /\ xpc # "ocr_run"
             /\ ocr_outcome = NoOcr
             /\ ocr_text = <<>>
        ELSE xpc = "ocr_run" \/ ocr_outcome # NoOcr

(***************************************************************************)
(* Claims about text cleaning                                              *)
(***************************************************************************)

\* C24 (as claimed): the cleaning postcondition. The output of
\* _clean_extracted_text, which every returned text has passed through,
\* holds no NUL and no U+FFFD character, has no leading or trailing
\* whitespace, and holds no run of two or more whitespace characters.
C24_CleanPostcondition ==
    xpc = "returned" =>
        LET t == output.text
        IN  /\ \A i \in 1..Len(t) : t[i] \notin {"NUL", "NULS", "FFFD"}
            /\ Strip(t) = t
            /\ \A i \in 1..Len(t) : IsWS(t[i]) => CharLen(t[i]) = 1
            /\ \A i \in 1..(Len(t) - 1) : ~(IsWS(t[i]) /\ IsWS(t[i + 1]))

(***************************************************************************)
(* Claims about the max_chunks cap                                         *)
(***************************************************************************)

\* The chunks SmartChunkingService produces for the text before any cap.
Uncapped == chunk_document(text, preserve_structure, 0)

\* The contents of cs[a..b] joined by blank lines.
RECURSIVE JoinRun(_, _, _)
JoinRun(cs, a, b) ==
    IF a = b THEN cs[a].content
    ELSE cs[a].content \o <<"NL", "NL">> \o JoinRun(cs, a + 1, b)

\* The ways of cutting 1..n into m runs of adjacent indices: g[i] is the run
\* of index i.
RunsOf(n, m) ==
    { g \in [1..n -> 1..m] :
        /\ g[1] = 1
        /\ g[n] = m
        /\ \A i \in 1..(n - 1) : g[i + 1] \in {g[i], g[i] + 1} }

First(g, j) == CHOOSE i \in DOMAIN g : g[i] = j /\ \A i2 \in DOMAIN g : g[i2] = j => i <= i2

Last(g, j) == CHOOSE i \in DOMAIN g : g[i] = j /\ \A i2 \in DOMAIN g : g[i2] = j => i2 <= i

\* C25: the max_chunks merge. When SmartChunkingService produces n chunks
\* and a cap max_chunks with 1 <= max_chunks < n is given, the list returned
\* has exactly max_chunks chunks with chunk_id 0 .. max_chunks - 1, and the
\* original chunks fall into max_chunks runs of adjacent chunks, in order,
\* each merged chunk being the join of one run: every original chunk is in
\* exactly one merged chunk and the order of the content is kept.
C25_MergeToCap ==
    (mpc = "done" /\ max_chunks >= 1 /\ max_chunks < Len(Uncapped)) =>
        /\ Len(smart_chunks) = max_chunks
        /\ \A j \in 1..Len(smart_chunks) : smart_chunks[j].chunk_id = j - 1
        /\ \E g \in RunsOf(Len(Uncapped), max_chunks) :
               \A j \in 1..max_chunks :
                   j <= Len(smart_chunks)
                   /\ smart_chunks[j].content = JoinRun(Uncapped, First(g, j), Last(g, j))

\* C25 witness: five chunks were merged down to two.
C25_Witness ==
    /\ mpc = "done"
    /\ max_chunks = 2
    /\ Len(Uncapped) = 5
    /\ Len(smart_chunks) = 2

(***************************************************************************)
(* Claims about LightweightOCR                                             *)
(***************************************************************************)

\* The PDF was rasterized: Tesseract is there and page images came back.
Rasterized == available /\ conversion = "ok" /\ images # <<>>

\* Page i gives cleaned text of more than 10 characters.
UsablePage(i) ==
    /\ images[i] # RAISES
    /\ PyLen(_clean_ocr_text(images[i])) > 10

\* The cleaned texts of the usable pages from page i on, joined by blank
\* lines, in page order.
RECURSIVE JoinUsable(_)
JoinUsable(i) ==
    IF i > Len(images) THEN <<>>
    ELSE IF ~UsablePage(i) THEN JoinUsable(i + 1)
    ELSE IF \E j \in (i + 1)..Len(images) : UsablePage(j)
         THEN _clean_ocr_text(images[i]) \o <<"NL", "NL">> \o JoinUsable(i + 1)
         ELSE _clean_ocr_text(images[i])

\* C26: OCR is best-effort per page. An exception on one page does not end
\* the job: the result holds one record per rasterized page, in page order,
\* a failed page carrying its error and zero counts; success is true exactly
\* when at least one page yields cleaned text of more than 10 characters,
\* and then text is made of exactly those pages' texts, in page order,
\* joined by blank lines; otherwise the result is a failure with empty text
\* and the per-page records. extract_text_from_pdf always returns.
C26_OcrBestEffortPerPage ==
    /\ lpc \in {"idle", "start", "loop", "returned"}
    /\ (lpc = "returned" /\ Rasterized) =>
         /\ Len(ocr_dict.pages) = Len(images)
         /\ \A i \in 1..Len(ocr_dict.pages) :
              /\ ocr_dict.pages[i].page_number = i
              /\ IF i <= Len(images) /\ images[i] = RAISES
                 THEN /\ ocr_dict.pages[i].error # "none"
                      /\ ocr_dict.pages[i].text = <<>>
                      /\ ocr_dict.pages[i].char_count = 0
                      /\ ocr_dict.pages[i].word_count = 0
                 ELSE /\ ocr_dict.pages[i].error = "none"
                      /\ i <= Len(images)
                      /\ ocr_dict.pages[i].text = _clean_ocr_text(images[i])
         /\ ocr_dict.success <=> \E i \in 1..Len(images) : UsablePage(i)
         /\ IF ocr_dict.success
            THEN ocr_dict.text = JoinUsable(1)
            ELSE ocr_dict.text = <<>>

\* C26 witness: Tesseract raised on the first of three pages and the other
\* two pages came back as the text.
C26_Witness ==
    /\ lpc = "returned"
    /\ Rasterized
    /\ Len(images) = 3
    /\ images[1] = RAISES
    /\ UsablePage(2)
    /\ UsablePage(3)
    /\ ocr_dict.success
    /\ Len(ocr_dict.pages) = 3

(***************************************************************************)
(* Claims about the chunked path of summarize_text                         *)
(***************************************************************************)

ChunkedReturned ==
    /\ spc = "returned"
    /\ summary_result.processing_method = "chunked_bedrock_processing"

\* The summarization of every chunk failed.
AllChunksFailed ==
    /\ chunk_summaries # <<>>
    /\ \A i \in 1..Len(chunk_summaries) : chunk_summaries[i] \in FailurePartials

\* C27 (as claimed): in the chunked path of summarize_text, for any number
\* of chunks N >= 1, a single chunk included, if the summarization of every
\* chunk failed then the returned summary is the fixed failure message and
\* no merge call is made; an error placeholder is never returned as the
\* summary.
C27_AllFailedGivesFailureMessage ==
    ChunkedReturned =>
        /\ AllChunksFailed =>
             /\ summary_result.summary = FailureMessage
             /\ merge_prompts = <<>>
        /\ summary_result.summary \notin FailurePartials

(***************************************************************************)
(* Claims about termination of the parallel dispatch                       *)
(***************************************************************************)

\* Every completion call returns or raises: none is left unanswered.
NoCallHangs == \A i \in 1..N : call[i] # "hung"

\* The parallel dispatch is over: every task has finished, every permit is
\* back and process_chunks_with_bedrock has returned one result per chunk.
ParallelDone ==
    /\ opc = "returned"
    /\ \A i \in 1..N : tpc[i] = "done"
    /\ sem = max_parallel
    /\ Len(ret) = N

\* C28: the parallel dispatch terminates. For every max_parallel >= 1 and
\* every list of N <= PARALLEL_THRESHOLD chunks, if every completion call
\* eventually returns or raises, then every chunk task eventually acquires
\* the semaphore and finishes and process_chunks_with_bedrock returns; the
\* permit of a failed call is released like that of a successful one, so
\* all permits are back at the end.
C28_ParallelDispatchTerminates ==
    ([]NoCallHangs) => ((mode = "parallel") ~> ParallelDone)

\* C28 witness: more chunks than permits, a call that raised, and the
\* dispatch returned with all permits free.
C28_Witness ==
    /\ mode = "parallel"
    /\ ParallelDone
    /\ N > max_parallel
    /\ \E i \in 1..N : served[i] \in Errors

(***************************************************************************)
(* Claims about the chunking strategy inside summarize_text                *)
(***************************************************************************)

\* The text summarize_text gave to chunk_document (none before the call).
HandedToChunker == text # <<>>

\* The document has line breaks and would pass structure detection as given.
StructuredAsGiven ==
    /\ \E i \in 1..Len(doc) : doc[i] = "NL"
    /\ Len(ParagraphSplit(Strip(doc), 1, <<>>)) >= 3
    /\ SectionCount(Strip(doc), 1) >= 2

\* C29: the text summarize_text hands to the chunker has no line break and
\* no whitespace other than single spaces, so structure detection never
\* succeeds there: the strategy chosen and the strategy reported in the
\* chunking result are simple_chunking, never structure_aware.
C29_PipelineAlwaysSimpleChunking ==
    HandedToChunker =>
        /\ \A i \in 1..Len(text) : text[i] \notin {"NL", "TAB", "GAP"}
        /\ \A i \in 1..(Len(text) - 1) : ~(text[i] = " " /\ text[i + 1] = " ")
        /\ kpc \in {"loop", "done"} => strategy = "simple_chunking"
        /\ kpc = "done" => result.processing_strategy = "simple_chunking"

\* A document with paragraphs and section headers went through the chunked
\* path and was chunked by sentences.
C29_Witness ==
    /\ StructuredAsGiven
    /\ spc = "returned"
    /\ summary_result.processing_method = "chunked_bedrock_processing"
    /\ result.processing_strategy = "simple_chunking"
    /\ result.total_chunks > 1

(***************************************************************************)
(* Claims about the call accounting of the chunked path                    *)
(***************************************************************************)

\* The chunked path of summarize_text returned a result.
ChunkedResult ==
    /\ spc = "returned"
    /\ summary_result.processing_method = "chunked_bedrock_processing"

\* Completion-service calls issued during the request: one per chunk by
\* process_chunks_with_bedrock, and every merge call create_final_summary made.
CallsIssued == Len(result.chunks) + Len(merge_prompts)

\* C30: in every result of the chunked path, bedrock_calls_made equals the
\* number of completion-service calls issued during the request: one per
\* chunk, plus one exactly when a merge call was really made.
C30_CallAccounting ==
    ChunkedResult => summary_result.bedrock_calls_made = CallsIssued

====
